---- MODULE Spec2Model ----
(***************************************************************************)
(* antibeaver: latency tracker (package tracker), buffering decision       *)
(* engine and validators (package synthesis).                              *)
(*                                                                         *)
(* Text is modelled as a sequence of one-character strings, so that        *)
(* formatting (fmt.Sprintf) produces text that can be compared and         *)
(* searched.  Time is an integer clock; a Duration is an integer.          *)
(***************************************************************************)
EXTENDS Integers, Sequences, FiniteSets, TLC

\* ------------------------------------------------------------------ bounds
\* largest small governance-signal value of a snapshot (besides the named ones)
MaxSig == 3
\* last instant of the clock
MaxTime == 1
\* largest capacity requested from NewWithMax
MaxCap == 2
\* number of samples recorded between two Clear calls
MaxHist == 3
\* number of goroutines calling one Tracker
NProcs == 2
\* number of samples concurrent callers record between two Clear calls
MaxConcHist == 3
MaxThoughts == 3
MaxEscape == 3
MaxRows == 2
MaxMetrics == 1

\* ------------------------------------------------------- program constants
\* Threshold: 5000 of the status command
DefaultThreshold == 5000
\* SimulatedMs: 99999 of the "halt takes priority" test
SimulatedHigh == 99999
\* the fallback 42 of the "returns fallback when empty" test
Fallback == 42
\* the latency of Record(100) in the tests
Latency100 == 100
\* the magnitude of the latency of Record(-500) in the tests
Latency500 == 500
MaxContentBytes == 50000

VARIABLES
    snapshot,     \* synthesis.State handed to ShouldBuffer
    result,       \* the set of verdicts ShouldBuffer has returned for snapshot
    samples,      \* Tracker.samples
    maxSamples,   \* Tracker.maxSamples
    requested,    \* the capacity NewWithMax was called with
    now,          \* time.Now()
    hist,         \* history: every sample appended since the last Clear, in order
    negOnly,      \* history: every latency recorded since the last Clear was negative
    ret,          \* what the last Tracker / validator call was and returned
    pc,           \* per goroutine: where it stands in its Tracker call ("idle": in none)
    lat,          \* per goroutine: the latencyMs argument of its Record call
    waiting,      \* per goroutine: asleep inside mu.RLock(), until a writer's Unlock
    seen,         \* per goroutine: the samples slice its call has read under the lock
    rwWriter,     \* goroutine that has announced itself as writer of mu (0: none)
    rwActive,     \* that writer holds mu (the readers it waited for have left)
    rwReaders,    \* per goroutine: read locks of mu it holds
    thoughts,     \* the slice GeneratePrompt is called with
    sorted,       \* GeneratePrompt's sorted copy, as sort.Slice left it
    prompt,       \* what the last call of GeneratePrompt returned
    call,         \* the validator or escaping function called and its argument
    returned,     \* what that call returned (empty: it has not returned)
    buffered_thoughts,  \* the rows of table buffered_thoughts, by id
    synthesis_events,   \* the rows of table synthesis_events, by id
    network_metrics,    \* the rows of table network_metrics, by id
    state_table,        \* table state: the values of halted, forced_buffering, simulated_ms
    cli,                \* the last store call a command made, and what it returned
    flushing,           \* the flush commands in progress: position and local values
    report,             \* what status printed, when the last command was status
    clock               \* the time of the system clock, in half seconds

vars == <<snapshot, result, samples, maxSamples, requested, now, hist, negOnly, ret,
          pc, lat, waiting, seen, rwWriter, rwActive, rwReaders,
          thoughts, sorted, prompt, call, returned,
          buffered_thoughts, synthesis_events, network_metrics, state_table, cli, flushing,
          report, clock>>
concVars == <<pc, lat, waiting, seen, rwWriter, rwActive, rwReaders>>
evalVars == <<snapshot, result>>
renderVars == <<thoughts, sorted, prompt>>
textVars == <<call, returned>>
tableVars == <<buffered_thoughts, synthesis_events, network_metrics, state_table>>
storeVars == <<tableVars, cli, flushing, report, clock>>
trackerVars == <<samples, maxSamples, requested, now, hist, negOnly, ret>>

\* --------------------------------------------------------------------- text
Digits == <<"0", "1", "2", "3", "4", "5", "6", "7", "8", "9">>

RECURSIVE FormatUint(_)
\* %d of a non-negative integer
FormatUint(n) ==
    IF n < 10 THEN <<Digits[n + 1]>>
    ELSE FormatUint(n \div 10) \o <<Digits[(n % 10) + 1]>>

\* %d of fmt.Sprintf
FormatInt(n) == IF n < 0 THEN <<"-">> \o FormatUint(0 - n) ELSE FormatUint(n)

\* strings.Contains
Contains(s, sub) ==
    \/ sub = <<>>
    \/ \E i \in 1..(Len(s) - Len(sub) + 1) :
           s[i] = sub[1] /\ SubSeq(s, i, i + Len(sub) - 1) = sub

\* ------------------------------------------------ decision engine (synthesis)
ReasonHalted == <<"S", "Y", "S", "T", "E", "M", " ", "H", "A", "L", "T", "E", "D">>
ReasonForced == <<"m", "a", "n", "u", "a", "l", " ", "o", "v", "e", "r", "r", "i", "d", "e">>
ReasonHealthy == <<"h", "e", "a", "l", "t", "h", "y">>

\* fmt.Sprintf("simulated %dms", state.SimulatedMs)
ReasonSimulated(ms) ==
    <<"s", "i", "m", "u", "l", "a", "t", "e", "d", " ">> \o FormatInt(ms) \o <<"m", "s">>

\* fmt.Sprintf("latency %dms > %dms", state.MaxLatency, state.Threshold)
ReasonLatency(max, threshold) ==
    <<"l", "a", "t", "e", "n", "c", "y", " ">> \o FormatInt(max)
        \o <<"m", "s", " ", ">", " ">> \o FormatInt(threshold) \o <<"m", "s">>

BufferResult(buffering, reason, latencyMs) ==
    [Buffering |-> buffering, Reason |-> reason, LatencyMs |-> latencyMs]

\* ShouldBuffer with the forced-override check ahead of the halt check
ShouldBuffer_ForcedBeforeHalt(state) ==
    IF state.ForcedBuffering
    THEN BufferResult(TRUE, ReasonForced, state.AvgLatency)
    ELSE IF state.Halted
    THEN BufferResult(TRUE, ReasonHalted, 0)
    ELSE IF state.SimulatedMs > state.Threshold
    THEN BufferResult(TRUE, ReasonSimulated(state.SimulatedMs), state.SimulatedMs)
    ELSE IF state.MaxLatency > state.Threshold
    THEN BufferResult(TRUE, ReasonLatency(state.MaxLatency, state.Threshold), state.MaxLatency)
    ELSE BufferResult(FALSE, ReasonHealthy, state.AvgLatency)

\* ShouldBuffer with the halt reason in another letter case
ShouldBuffer_HaltReasonRecased(state) ==
    IF state.Halted
    THEN BufferResult(TRUE, <<"S", "y", "s", "t", "e", "m", " ", "h", "a", "l", "t", "e", "d">>, 0)
    ELSE IF state.ForcedBuffering
    THEN BufferResult(TRUE, ReasonForced, state.AvgLatency)
    ELSE IF state.SimulatedMs > state.Threshold
    THEN BufferResult(TRUE, ReasonSimulated(state.SimulatedMs), state.SimulatedMs)
    ELSE IF state.MaxLatency > state.Threshold
    THEN BufferResult(TRUE, ReasonLatency(state.MaxLatency, state.Threshold), state.MaxLatency)
    ELSE BufferResult(FALSE, ReasonHealthy, state.AvgLatency)

\* ShouldBuffer with the simulated-latency check ahead of the forced-override check
ShouldBuffer_SimulatedBeforeForced(state) ==
    IF state.Halted
    THEN BufferResult(TRUE, ReasonHalted, 0)
    ELSE IF state.SimulatedMs > state.Threshold
    THEN BufferResult(TRUE, ReasonSimulated(state.SimulatedMs), state.SimulatedMs)
    ELSE IF state.ForcedBuffering
    THEN BufferResult(TRUE, ReasonForced, state.AvgLatency)
    ELSE IF state.MaxLatency > state.Threshold
    THEN BufferResult(TRUE, ReasonLatency(state.MaxLatency, state.Threshold), state.MaxLatency)
    ELSE BufferResult(FALSE, ReasonHealthy, state.AvgLatency)

\* ShouldBuffer with the measured-latency check ahead of the simulated-latency check
ShouldBuffer_MeasuredBeforeSimulated(state) ==
    IF state.Halted
    THEN BufferResult(TRUE, ReasonHalted, 0)
    ELSE IF state.ForcedBuffering
    THEN BufferResult(TRUE, ReasonForced, state.AvgLatency)
    ELSE IF state.MaxLatency > state.Threshold
    THEN BufferResult(TRUE, ReasonLatency(state.MaxLatency, state.Threshold), state.MaxLatency)
    ELSE IF state.SimulatedMs > state.Threshold
    THEN BufferResult(TRUE, ReasonSimulated(state.SimulatedMs), state.SimulatedMs)
    ELSE BufferResult(FALSE, ReasonHealthy, state.AvgLatency)

\* ShouldBuffer with >= in the measured-latency comparison
ShouldBuffer_MeasuredAtThreshold(state) ==
    IF state.Halted
    THEN BufferResult(TRUE, ReasonHalted, 0)
    ELSE IF state.ForcedBuffering
    THEN BufferResult(TRUE, ReasonForced, state.AvgLatency)
    ELSE IF state.SimulatedMs > state.Threshold
    THEN BufferResult(TRUE, ReasonSimulated(state.SimulatedMs), state.SimulatedMs)
    ELSE IF state.MaxLatency >= state.Threshold
    THEN BufferResult(TRUE, ReasonLatency(state.MaxLatency, state.Threshold), state.MaxLatency)
    ELSE BufferResult(FALSE, ReasonHealthy, state.AvgLatency)

\* ShouldBuffer reporting the maximum instead of the average when healthy
ShouldBuffer_HealthyReportsMax(state) ==
    IF state.Halted
    THEN BufferResult(TRUE, ReasonHalted, 0)
    ELSE IF state.ForcedBuffering
    THEN BufferResult(TRUE, ReasonForced, state.AvgLatency)
    ELSE IF state.SimulatedMs > state.Threshold
    THEN BufferResult(TRUE, ReasonSimulated(state.SimulatedMs), state.SimulatedMs)
    ELSE IF state.MaxLatency > state.Threshold
    THEN BufferResult(TRUE, ReasonLatency(state.MaxLatency, state.Threshold), state.MaxLatency)
    ELSE BufferResult(FALSE, ReasonHealthy, state.MaxLatency)

ShouldBuffer(state) ==
    IF state.Halted
    THEN BufferResult(TRUE, ReasonHalted, 0)
    ELSE IF state.ForcedBuffering
    THEN BufferResult(TRUE, ReasonForced, state.AvgLatency)
    ELSE IF state.SimulatedMs > state.Threshold
    THEN BufferResult(TRUE, ReasonSimulated(state.SimulatedMs), state.SimulatedMs)
    ELSE IF state.MaxLatency > state.Threshold
    THEN BufferResult(TRUE, ReasonLatency(state.MaxLatency, state.Threshold), state.MaxLatency)
    ELSE BufferResult(FALSE, ReasonHealthy, state.AvgLatency)

\* the values a governance signal takes: negative, small, and the tests' values
SignalValues ==
    ((0 - 1)..MaxSig) \cup {DefaultThreshold, DefaultThreshold + 1, SimulatedHigh}

State ==
    [AvgLatency : SignalValues, MaxLatency : SignalValues, Threshold : SignalValues,
     ForcedBuffering : BOOLEAN, SimulatedMs : SignalValues, Halted : BOOLEAN]

\* ----------------------------------------------------------- validators
ValidateLatency(ms) == IF ms < 0 THEN 0 ELSE ms

\* ------------------------------------------------------- tracker (sequential)
Sample(ts, latencyMs) == [Timestamp |-> ts, LatencyMs |-> latencyMs]

\* NewWithMax without the floor of 1
NewWithMax_NoFloor(max) == max

NewWithMax(max) == IF max <= 0 THEN 1 ELSE max

\* RecordWithTime storing the latency as given
ClampLatency_Unclamped(latencyMs) == latencyMs

\* "Clamp negative to zero" of RecordWithTime
ClampLatency(latencyMs) == IF latencyMs < 0 THEN 0 ELSE latencyMs

\* RecordWithTime dropping the newest sample when over max
DropOldest_Newest(s, max) == IF Len(s) > max THEN SubSeq(s, 1, Len(s) - 1) ELSE s

\* "Drop oldest if over max" of RecordWithTime
DropOldest(s, max) == IF Len(s) > max THEN Tail(s) ELSE s

\* Clear keeping the newest sample
Cleared_KeepsNewest(s) == IF s = <<>> THEN s ELSE <<s[Len(s)]>>

\* t.samples[:0] of Clear
Cleared(s) == <<>>

\* the samples slice RecordWithTime leaves behind
Recorded(s, max, latencyMs, ts) ==
    DropOldest(Append(s, Sample(ts, ClampLatency(latencyMs))), max)

\* the window test with "not before the cutoff" in place of "after the cutoff"
InWindow_Inclusive(s, t, window) == s.Timestamp >= t - window

\* s.Timestamp.After(cutoff), cutoff = time.Now().Add(-window)
InWindow(s, t, window) == s.Timestamp > t - window

RECURSIVE SumInWindow(_, _, _)
SumInWindow(s, t, window) ==
    IF s = <<>> THEN 0
    ELSE (IF InWindow(Head(s), t, window) THEN Head(s).LatencyMs ELSE 0)
             + SumInWindow(Tail(s), t, window)

RECURSIVE CountInWindow(_, _, _)
CountInWindow(s, t, window) ==
    IF s = <<>> THEN 0
    ELSE (IF InWindow(Head(s), t, window) THEN 1 ELSE 0)
             + CountInWindow(Tail(s), t, window)

\* Go's integer division truncates toward zero
TruncDiv(a, b) == IF a >= 0 THEN a \div b ELSE 0 - ((0 - a) \div b)

AverageOf(s, t, window, fallback) ==
    IF CountInWindow(s, t, window) = 0 THEN fallback
    ELSE TruncDiv(SumInWindow(s, t, window), CountInWindow(s, t, window))

RECURSIVE MaxLoop(_, _, _, _)
\* the loop of Max, max being the running maximum (initially -1)
MaxLoop(s, t, window, max) ==
    IF s = <<>> THEN max
    ELSE MaxLoop(Tail(s), t, window,
                 IF InWindow(Head(s), t, window) /\ Head(s).LatencyMs > max
                 THEN Head(s).LatencyMs ELSE max)

\* Max taking a maximum of 0 for "no sample in the window"
MaxOf_ZeroIsNone(s, t, window, fallback) ==
    IF MaxLoop(s, t, window, 0 - 1) <= 0 THEN fallback
    ELSE MaxLoop(s, t, window, 0 - 1)

MaxOf(s, t, window, fallback) ==
    IF MaxLoop(s, t, window, 0 - 1) < 0 THEN fallback
    ELSE MaxLoop(s, t, window, 0 - 1)

Latencies == {0 - Latency500, 0, Latency100}
Times == 0..MaxTime
Windows == {0, 1, MaxTime + 1}
Fallbacks == {0, Fallback}

Ret(op, arg, window, fallback, val) ==
    [op |-> op, arg |-> arg, window |-> window, fallback |-> fallback, val |-> val]
NoRet == Ret("none", 0, 0, 0, 0)

\* ------------------------------------------------------ tracker (concurrent)
Procs == 1..NProcs

\* Record's latency arguments in the concurrent runs: a negative and a positive one
ConcLatencies == {0 - Latency500, Latency100}

\* the window of ToJSON's Average(time.Minute, 0) and Max(time.Minute, 0)
Minute == MaxTime + 1

\* where a call stands when it is about to call mu.Lock()
LockLabels == {"rec_lock", "clr_lock"}
\* where a call stands inside mu.Lock(), announced and waiting for the readers to leave
LockWaitLabels == {"rec_wait", "clr_wait"}
\* where a call stands when it is about to call, or is asleep in, mu.RLock()
RLockLabels == {"avg_rlock", "max_rlock", "cnt_rlock",
                "tj_rlock", "tj_avg_rlock", "tj_max_rlock"}
\* where a call stands when it reads t.samples
ReadLabels == {"avg_read", "max_read", "cnt_read", "tj_len", "tj_avg_read", "tj_max_read"}
\* where a call stands when it is about to call mu.RUnlock() (deferred)
RUnlockLabels == {"avg_runlock", "max_runlock", "cnt_runlock",
                  "tj_avg_runlock", "tj_max_runlock", "tj_runlock"}
\* where a call stands when it is about to call mu.Unlock() (deferred)
UnlockLabels == {"rec_unlock", "clr_unlock"}
\* the first statement of each method
EntryLabels == {"rec_lock", "clr_lock", "avg_rlock", "max_rlock", "cnt_rlock", "tj_rlock"}

\* the statement after the one at label l, in program order
Following(l) ==
    CASE l = "rec_lock" -> "rec_wait"
      [] l = "rec_wait" -> "rec_append"
      [] l = "rec_append" -> "rec_trim"
      [] l = "rec_trim" -> "rec_unlock"
      [] l = "rec_unlock" -> "idle"
      [] l = "clr_lock" -> "clr_wait"
      [] l = "clr_wait" -> "clr_clear"
      [] l = "clr_clear" -> "clr_unlock"
      [] l = "clr_unlock" -> "idle"
      [] l = "avg_rlock" -> "avg_read"
      [] l = "avg_read" -> "avg_runlock"
      [] l = "avg_runlock" -> "idle"
      [] l = "max_rlock" -> "max_read"
      [] l = "max_read" -> "max_runlock"
      [] l = "max_runlock" -> "idle"
      [] l = "cnt_rlock" -> "cnt_read"
      [] l = "cnt_read" -> "cnt_runlock"
      [] l = "cnt_runlock" -> "idle"
      [] l = "tj_rlock" -> "tj_len"
      [] l = "tj_len" -> "tj_avg_rlock"
      [] l = "tj_avg_rlock" -> "tj_avg_read"
      [] l = "tj_avg_read" -> "tj_avg_runlock"
      [] l = "tj_avg_runlock" -> "tj_max_rlock"
      [] l = "tj_max_rlock" -> "tj_max_read"
      [] l = "tj_max_read" -> "tj_max_runlock"
      [] l = "tj_max_runlock" -> "tj_runlock"
      [] l = "tj_runlock" -> "idle"
      [] OTHER -> "idle"

RECURSIVE ReadLocksHeld(_, _)
\* the read locks the goroutines 1..n hold together (readerCount of sync.RWMutex)
ReadLocksHeld(readers, n) ==
    IF n = 0 THEN 0 ELSE readers[n] + ReadLocksHeld(readers, n - 1)

\* RLock of sync.RWMutex taking the lock although a writer has announced itself
ReaderMustWait_Never(writer) == FALSE

\* RLock of sync.RWMutex: a reader sleeps while a writer is announced or active
ReaderMustWait(writer) == writer # 0

\* the number of Record calls under way that have not appended yet
RecordsPending == Cardinality({p \in Procs : pc[p] \in {"rec_lock", "rec_wait", "rec_append"}})

\* ------------------------------------------------ synthesis prompt (synthesis)
RECURSIVE Join(_, _)
\* strings.Join
Join(elems, sep) ==
    IF elems = <<>> THEN <<>>
    ELSE IF Len(elems) = 1 THEN elems[1]
    ELSE elems[1] \o sep \o Join(Tail(elems), sep)

RECURSIVE ReplaceAll(_, _, _)
\* strings.ReplaceAll of a one-character old by new
ReplaceAll(s, old, new) ==
    IF s = <<>> THEN <<>>
    ELSE (IF Head(s) = old THEN new ELSE <<Head(s)>>) \o ReplaceAll(Tail(s), old, new)

\* escapeContent escaping the quotes ahead of the backslashes
escapeContent_QuotesFirst(s) ==
    ReplaceAll(ReplaceAll(ReplaceAll(s, "\"", <<"\\", "\"">>), "\\", <<"\\", "\\">>),
               "\n", <<"\\", "n">>)

escapeContent(s) ==
    ReplaceAll(ReplaceAll(ReplaceAll(s, "\\", <<"\\", "\\">>), "\"", <<"\\", "\"">>),
               "\n", <<"\\", "n">>)

\* the characters of the creation timestamps, in byte order
TimestampBytes == <<"-", "0", "1", "2", "3", "4", "5", "6", "7", "8", "9", ":", "T", "Z">>

ByteRank(c) == CHOOSE i \in 1..Len(TimestampBytes) : TimestampBytes[i] = c

\* a < b of two Go strings: the bytes at the first position where they differ
\* decide, and a proper prefix is less
StringLess(a, b) ==
    LET differ == {i \in 1..Len(a) : i <= Len(b) /\ a[i] # b[i]}
        first == CHOOSE i \in differ : \A j \in differ : i <= j
    IN  IF a = b THEN FALSE
        ELSE IF differ = {} THEN Len(a) < Len(b)
        ELSE ByteRank(a[first]) < ByteRank(b[first])

priorityOrder(p) ==
    CASE p = "P0" -> 0
      [] p = "P1" -> 1
      [] p = "P2" -> 2
      [] OTHER -> 1

\* the less function GeneratePrompt hands to sort.Slice
Less(a, b) ==
    IF priorityOrder(a.Priority) # priorityOrder(b.Priority)
    THEN priorityOrder(a.Priority) < priorityOrder(b.Priority)
    ELSE StringLess(a.CreatedAt, b.CreatedAt)

\* the slices holding the elements of s in some order
Rearranged(s) == {[i \in 1..Len(s) |-> s[f[i]]] : f \in Permutations(1..Len(s))}

\* sort.Slice: the elements of s with none less than the one before it (so,
\* less being a strict weak order, than any before it). The sort is not
\* guaranteed to be stable (package sort: "equal elements may be reversed from
\* their original order"), so every such order is a possible outcome.
SortSlice(s) ==
    {q \in Rearranged(s) : \A i \in 1..(Len(q) - 1) : ~Less(q[i + 1], q[i])}

TagCritical == <<" ", "[", "C", "R", "I", "T", "I", "C", "A", "L", "]">>
TagLow == <<" ", "[", "l", "o", "w", "]">>

\* the tag with "[low]" on every item that is not P0
Tag_LowUnlessCritical(priority) == IF priority = "P0" THEN TagCritical ELSE TagLow

\* tag of the switch on t.Priority
Tag(priority) ==
    CASE priority = "P0" -> TagCritical
      [] priority = "P2" -> TagLow
      [] OTHER -> <<>>

\* fmt.Sprintf("%d. [%s]%s \"%s\"", i+1, t.CreatedAt, tag, escaped); n is i+1
Line(n, t) ==
    FormatInt(n) \o <<".", " ", "[">> \o t.CreatedAt \o <<"]">> \o Tag(t.Priority)
        \o <<" ", "\"">> \o escapeContent(t.Content) \o <<"\"">>

Lines(s) == [i \in 1..Len(s) |-> Line(i, s[i])]

P0Count(s) == Cardinality({i \in 1..Len(s) : s[i].Priority = "P0"})

NotePrefix == <<"\n", "\n", "*", "*", "N", "o", "t", "e", ":", "*", "*", " ">>
NoteSuffix ==
    <<" ", "C", "R", "I", "T", "I", "C", "A", "L", " ", "t", "h", "o", "u", "g", "h", "t", "(",
      "s", ")", " ", "U+2014", " ", "p", "r", "e", "s", "e", "r", "v", "e", " ", "u", "n", "l",
      "e", "s", "s", " ", "c", "l", "e", "a", "r", "l", "y", " ", "o", "b", "s", "o", "l", "e",
      "t", "e", ".">>

\* the critical note without the count
CriticalNote_NoCount(p0Count) ==
    IF p0Count > 0 THEN NotePrefix \o NoteSuffix ELSE <<>>

CriticalNote(p0Count) ==
    IF p0Count > 0 THEN NotePrefix \o FormatInt(p0Count) \o NoteSuffix ELSE <<>>

\* the noun in the plural for every count
MessageWord_Plural(n) == <<"m", "e", "s", "s", "a", "g", "e", "s">>

MessageWord(n) ==
    IF n = 1 THEN <<"m", "e", "s", "s", "a", "g", "e">>
    ELSE <<"m", "e", "s", "s", "a", "g", "e", "s">>

EmptyNotice ==
    <<"*", "*", "S", "Y", "S", "T", "E", "M", ":", " ", "N", "o", " ", "b", "u", "f", "f", "e",
      "r", "e", "d", " ", "t", "h", "o", "u", "g", "h", "t", "s", " ", "t", "o", " ", "s", "y",
      "n", "t", "h", "e", "s", "i", "z", "e", ".", "*", "*">>

PromptHead ==
    <<"*", "*", "S", "Y", "S", "T", "E", "M", ":", " ", "N", "E", "T", "W", "O", "R", "K", " ",
      "R", "E", "C", "O", "V", "E", "R", "E", "D", "*", "*", "\n", "\n", "W", "h", "i", "l",
      "e", " ", "c", "o", "n", "g", "e", "s", "t", "e", "d", ",", " ", "y", "o", "u", " ", "d",
      "r", "a", "f", "t", "e", "d", " ">>

PromptTask ==
    <<"\n", "\n", "*", "*", "T", "A", "S", "K", ":", "*", "*", " ", "R", "e", "v", "i", "e",
      "w", " ", "a", "g", "a", "i", "n", "s", "t", " ", "c", "u", "r", "r", "e", "n", "t", " ",
      "c", "h", "a", "n", "n", "e", "l", " ", "s", "t", "a", "t", "e", ".", "\n", "-", " ",
      "D", "i", "s", "c", "a", "r", "d", " ", "o", "b", "s", "o", "l", "e", "t", "e", "/", "s",
      "u", "p", "e", "r", "s", "e", "d", "e", "d", " ", "t", "h", "o", "u", "g", "h", "t", "s",
      "\n", "-", " ", "S", "y", "n", "t", "h", "e", "s", "i", "z", "e", " ", "r", "e", "m",
      "a", "i", "n", "i", "n", "g", " ", "i", "n", "t", "o", " ", "O", "N", "E", " ", "c", "o",
      "h", "e", "r", "e", "n", "t", " ", "m", "e", "s", "s", "a", "g", "e", "\n", "-", " ",
      "D", "o", " ", "n", "o", "t", " ", "a", "p", "o", "l", "o", "g", "i", "z", "e", " ", "o",
      "r", " ", "m", "e", "n", "t", "i", "o", "n", " ", "d", "e", "l", "a", "y", "s">>

\* the text GeneratePrompt lays out around the sorted copy
Layout(input, s) ==
    PromptHead \o FormatInt(Len(input)) \o <<" ">> \o MessageWord(Len(input))
        \o <<":", "\n", "\n">> \o Join(Lines(s), <<"\n">>)
        \o CriticalNote(P0Count(s)) \o PromptTask

\* sort.Slice run on the caller's slice itself
CallerSlice_SortedInPlace(input, s) == s

\* the caller's slice after GeneratePrompt: sorted is made with
\* make([]db.Thought, len(thoughts)) and filled by copy, and sort.Slice and the
\* loops work on that copy, left as s
CallerSlice(input, s) == input

\* GeneratePrompt laying out an empty collection like any other
Prompt_NoEmptyCase(input, s) == Layout(input, s)

\* what GeneratePrompt returns for input when sort.Slice leaves its copy as s
Prompt(input, s) ==
    IF Len(input) = 0 THEN EmptyNotice ELSE Layout(input, s)

Stamp1200 == <<"2", "0", "2", "6", "-", "0", "2", "-", "0", "7", "T", "1", "2", ":", "0", "0", ":", "0",
      "0", "Z">>
Stamp1201 == <<"2", "0", "2", "6", "-", "0", "2", "-", "0", "7", "T", "1", "2", ":", "0", "1", ":", "0",
      "0", "Z">>
Stamps == {Stamp1200, Stamp1201}

ContentBracketed == <<"[", "l", "o", "w", "]">>
ContentQuoted == <<"a", "\"">>
Contents == {ContentBracketed, ContentQuoted}

Priorities == {"P0", "P1", "P2"}

\* db.Thought, the fields GeneratePrompt reads
Thought == [Content : Contents, Priority : Priorities, CreatedAt : Stamps]

RECURSIVE Slices(_)
\* the slices of at most n thoughts
Slices(n) ==
    IF n = 0 THEN {<<>>}
    ELSE Slices(n - 1) \cup {Append(s, th) : s \in {r \in Slices(n - 1) : Len(r) = n - 1}, th \in Thought}

\* no call of GeneratePrompt has returned
NoPrompt == <<>>

\* ------------------------------------------------------ validators (synthesis)
ErrNone == "nil"
ErrInvalidPriority == "invalid priority"
ErrEmptyContent == "thought content cannot be empty"

\* (value, error) of a Go return
Return(val, err) == [val |-> val, err |-> err]

\* ValidatePriority taking an unrecognized token for the default tier
ValidatePriority_DefaultsUnknown(p) ==
    IF p \in {"P0", "P1", "P2"} THEN Return(p, ErrNone) ELSE Return("P1", ErrNone)

ValidatePriority(p) ==
    IF p = "" THEN Return("P1", ErrNone)
    ELSE IF p \in {"P0", "P1", "P2"} THEN Return(p, ErrNone)
    ELSE Return("", ErrInvalidPriority)

\* unicode.IsSpace, for the one-byte characters
IsSpace(c) == c \in {" ", "\t", "\n", "\r", "\f"}

\* strings.TrimSpace
TrimSpace(s) ==
    IF \A i \in 1..Len(s) : IsSpace(s[i]) THEN <<>>
    ELSE SubSeq(s,
                CHOOSE i \in 1..Len(s) : ~IsSpace(s[i]) /\ \A j \in 1..(i - 1) : IsSpace(s[j]),
                CHOOSE i \in 1..Len(s) : ~IsSpace(s[i]) /\ \A j \in (i + 1)..Len(s) : IsSpace(s[j]))

\* ValidateThought returning the trimmed content
ValidateThought_Trimmed(content) ==
    IF TrimSpace(content) = <<>> THEN Return(<<>>, ErrEmptyContent)
    ELSE IF Len(TrimSpace(content)) > MaxContentBytes
    THEN Return(SubSeq(TrimSpace(content), 1, MaxContentBytes), ErrNone)
    ELSE Return(TrimSpace(content), ErrNone)

ValidateThought(content) ==
    IF TrimSpace(content) = <<>> THEN Return(<<>>, ErrEmptyContent)
    ELSE IF Len(content) > MaxContentBytes
    THEN Return(SubSeq(content, 1, MaxContentBytes), ErrNone)
    ELSE Return(content, ErrNone)

\* the priority flags tried: the empty one, the tiers, and tokens that are no tier
PriorityTokens == {"", "P0", "P1", "P2", "p0", "p1", "p2", "P3", "P9", "P99", "P", "0", " P1", "high"}

\* strings.Repeat of a one-character string
Repeat(c, n) == [i \in 1..n |-> c]

\* lengths at zero and around the maximum
BodyLengths ==
    {0, 1, MaxContentBytes - 2, MaxContentBytes - 1, MaxContentBytes, MaxContentBytes + 1}

\* contents: a run of "a" of those lengths with or without a space ahead and a
\* tab behind, the whitespace of the test, and a full maximum of spaces
\* followed by a letter
ThoughtTexts ==
    {Repeat(" ", l) \o Repeat("a", m) \o Repeat("\t", r) :
         l \in {0, 1}, m \in BodyLengths, r \in {0, 1}}
        \cup {<<" ", " ", " ", "\t", "\n", " ", " ">>}
        \cup {Repeat(" ", MaxContentBytes) \o <<"a">>}

EscapeChars == {"\"", "\\", "\n", "n", "a"}

RECURSIVE Strings(_, _)
\* the strings of at most n characters of chars
Strings(chars, n) ==
    IF n = 0 THEN {<<>>}
    ELSE Strings(chars, n - 1)
             \cup {Append(s, c) : s \in {r \in Strings(chars, n - 1) : Len(r) = n - 1}, c \in chars}

\* a call of op with the argument text
Input(op, text) == [op |-> op, text |-> text]

Inputs ==
    {Input("ValidatePriority", p) : p \in PriorityTokens}
        \cup {Input("ValidateThought", s) : s \in ThoughtTexts}
        \cup {Input("escapeContent", s) : s \in Strings(EscapeChars, MaxEscape)}

\* ------------------------------------------------------------------ the store
StatusPending == "pending"
StatusSynthesized == "synthesized"

\* the error of a statement the database could not carry out
ErrStorage == "storage error"

Agents == {"main", "architect"}

ContentMain == <<"M", "a", "i", "n">>
ContentTest == <<"T", "e", "s", "t">>

\* a row of buffered_thoughts; its id is its place in the table
Row(agent, content, priority, created, status) ==
    [agent_id |-> agent, content |-> content, priority |-> priority,
     created_at |-> created, status |-> status]

\* a row of synthesis_events
SynthesisEvent(agent, count, output) ==
    [agent_id |-> agent, thoughts_count |-> count, final_output |-> output]

\* the seconds in which the commands run: datetime('now') counts in seconds
Clock == {Stamp1200}

\* datetime('now') as a later read gives it back: not before any stored one
Nows(rows) == {s \in Clock : \A i \in 1..Len(rows) : ~StringLess(s, rows[i].created_at)}

\* what a call on the store leaves and returns
Outcome(rows, events, n, err) == [rows |-> rows, events |-> events, n |-> n, err |-> err]

\* InsertThought taking an unrecognized priority for the default of the column
InsertThought_DefaultsUnknown(rows, events, agent, content, priority) ==
    {Outcome(rows, events, 0, ErrStorage)}
        \cup {Outcome(Append(rows, Row(agent, content,
                                      IF priority \in {"P0", "P1", "P2"} THEN priority ELSE "P1",
                                      at, StatusPending)),
                      events, Len(rows) + 1, ErrNone) : at \in Nows(rows)}

\* InsertThought: the priority is checked, then one INSERT, which may fail
InsertThought(rows, events, agent, content, priority) ==
    IF priority \notin {"P0", "P1", "P2"}
    THEN {Outcome(rows, events, 0, ErrInvalidPriority)}
    ELSE {Outcome(rows, events, 0, ErrStorage)}
             \cup {Outcome(Append(rows, Row(agent, content, priority, at, StatusPending)),
                           events, Len(rows) + 1, ErrNone) : at \in Nows(rows)}

\* the ids of the pending rows of the agent
PendingIds(rows, agent) ==
    {i \in 1..Len(rows) : rows[i].agent_id = agent /\ rows[i].status = StatusPending}

RECURSIVE InIdOrder(_, _)
\* the rows of the ids, lowest id first, as db.Thought values
InIdOrder(rows, ids) ==
    IF ids = {} THEN <<>>
    ELSE LET i == CHOOSE k \in ids : \A j \in ids : k <= j
         IN  <<[Content |-> rows[i].content, Priority |-> rows[i].priority,
                CreatedAt |-> rows[i].created_at]>> \o InIdOrder(rows, ids \ {i})

\* GetPendingThoughts: ORDER BY the tier, then created_at, which are the keys of
\* Less; rows equal on both come in any order
GetPendingThoughts(rows, agent) == SortSlice(InIdOrder(rows, PendingIds(rows, agent)))

\* GetPendingCount; the empty agent counts every agent's
GetPendingCount(rows, agent) ==
    Cardinality({i \in 1..Len(rows) :
                     (agent = "" \/ rows[i].agent_id = agent) /\ rows[i].status = StatusPending})

GetPendingAgents(rows) ==
    {rows[i].agent_id : i \in {k \in 1..Len(rows) : rows[k].status = StatusPending}}

\* the UPDATE of MarkSynthesized deleting the rows
Synthesize_Deletes(rows, agent) ==
    SelectSeq(rows, LAMBDA r : ~(r.agent_id = agent /\ r.status = StatusPending))

\* the UPDATE of MarkSynthesized without WHERE agent_id = ?
Synthesize_EveryAgent(rows, agent) ==
    [i \in 1..Len(rows) |-> [rows[i] EXCEPT !.status = StatusSynthesized]]

\* the UPDATE of MarkSynthesized stopping after one row
Synthesize_One(rows, agent) ==
    [i \in 1..Len(rows) |->
        IF i \in PendingIds(rows, agent) /\ \A j \in PendingIds(rows, agent) : i <= j
        THEN [rows[i] EXCEPT !.status = StatusSynthesized]
        ELSE rows[i]]

\* UPDATE buffered_thoughts SET status = 'synthesized'
\* WHERE agent_id = ? AND status = 'pending'
Synthesize(rows, agent) ==
    [i \in 1..Len(rows) |->
        IF i \in PendingIds(rows, agent)
        THEN [rows[i] EXCEPT !.status = StatusSynthesized]
        ELSE rows[i]]

\* MarkSynthesized writing an event also when nothing was pending
MarkSynthesized_EventAlways(rows, events, agent, output) ==
    {Outcome(rows, events, 0, ErrStorage),
     Outcome(Synthesize(rows, agent), events, GetPendingCount(rows, agent), ErrStorage),
     Outcome(Synthesize(rows, agent),
             Append(events, SynthesisEvent(agent, GetPendingCount(rows, agent), output)),
             GetPendingCount(rows, agent), ErrNone)}

\* MarkSynthesized: the count, the UPDATE and the INSERT of the event are three
\* statements, each of which may fail; no transaction holds them together
MarkSynthesized(rows, events, agent, output) ==
    {Outcome(rows, events, 0, ErrStorage)}
        \cup IF GetPendingCount(rows, agent) = 0
             THEN {Outcome(rows, events, 0, ErrNone)}
             ELSE {Outcome(Synthesize(rows, agent), events,
                           GetPendingCount(rows, agent), ErrStorage),
                   Outcome(Synthesize(rows, agent),
                           Append(events, SynthesisEvent(agent, GetPendingCount(rows, agent),
                                                         output)),
                           GetPendingCount(rows, agent), ErrNone)}

\* the prompts GeneratePrompt can return for the thoughts read
Prompts(read) == {Prompt(read, q) : q \in SortSlice(read)}

\* what flushCmd does for one agent: nothing when it reads no pending thought,
\* otherwise MarkSynthesized with the prompt of the thoughts read
FlushOne(rows, events, agent) ==
    IF PendingIds(rows, agent) = {} THEN {Outcome(rows, events, 0, ErrNone)}
    ELSE UNION {MarkSynthesized(rows, events, agent, out) :
                    out \in UNION {Prompts(read) : read \in GetPendingThoughts(rows, agent)}}

RECURSIVE FlushEach(_, _, _)
\* the loop of flush --all over the agents in the order read: an agent whose
\* thoughts cannot be read is passed over, and no error stops the loop
FlushEach(rows, events, agents) ==
    IF agents = <<>> THEN {Outcome(rows, events, 0, ErrNone)}
    ELSE UNION {{Outcome(rest.rows, rest.events, 0,
                         IF o.err = ErrNone THEN rest.err ELSE o.err) :
                     rest \in FlushEach(o.rows, o.events, Tail(agents))} :
                o \in FlushOne(rows, events, Head(agents))
                          \cup {Outcome(rows, events, 0, ErrStorage)}}

\* the sequences that hold every element of the set once
Orders(set) == {q \in [1..Cardinality(set) -> set] : \A e \in set : \E i \in DOMAIN q : q[i] = e}

\* what the last command or store call was and the number and error it returned
Cli(op, n, err) == [op |-> op, n |-> n, err |-> err]

NoCall == Cli("none", 0, ErrNone)

\* the contents and priority flags given to buffer
CliContents == {ContentMain, ContentTest, <<" ">>}
CliPriorities == {"", "p1"}

\* the priority flags given to buffer where every tier is tried
BufferPriorities == {"", "P0", "P2", "P99"}

\* the priorities handed straight to InsertThought
DbPriorities == {"P0", "", "INVALID"}

\* the output handed straight to MarkSynthesized
TestOutput == <<"o", "u", "t", "p", "u", "t">>

\* ------------------------------------------------ table state and the clock
ErrInvalidLatency == "invalid latency value"

\* the value of a decimal digit
DigitValue(c) == (CHOOSE i \in 1..Len(Digits) : Digits[i] = c) - 1

RECURSIVE ParseUint(_)
\* the number a text of decimal digits stands for
ParseUint(s) ==
    IF s = <<>> THEN 0 ELSE ParseUint(SubSeq(s, 1, Len(s) - 1)) * 10 + DigitValue(s[Len(s)])

IsDigits(s) == \A i \in 1..Len(s) : \E k \in 1..Len(Digits) : Digits[k] = s[i]

\* strconv.ParseInt(s, 10, 64): an optional sign, then decimal digits and
\* nothing else (no text tried is beyond the range of int64)
ParseInt(s) ==
    LET signed == s # <<>> /\ s[1] \in {"+", "-"}
        body == IF signed THEN Tail(s) ELSE s
    IN  IF body = <<>> \/ ~IsDigits(body) THEN Return(0, ErrInvalidLatency)
        ELSE IF signed /\ s[1] = "-" THEN Return(0 - ParseUint(body), ErrNone)
        ELSE Return(ParseUint(body), ErrNone)

\* fmt.Sscanf(v, "%d", &ms) on ms = 0: the longest signed decimal number v
\* starts with; ms stays 0 when v starts with none
Sscanf(v) ==
    LET signed == v # <<>> /\ v[1] \in {"+", "-"}
        body == IF signed THEN Tail(v) ELSE v
        n == CHOOSE k \in 0..Len(body) :
                 /\ IsDigits(SubSeq(body, 1, k))
                 /\ k < Len(body) => ~IsDigits(SubSeq(body, 1, k + 1))
    IN  IF n = 0 THEN 0
        ELSE IF signed /\ v[1] = "-" THEN 0 - ParseUint(SubSeq(body, 1, n))
        ELSE ParseUint(SubSeq(body, 1, n))

\* table state as db.Open leaves a new file: no row, which getState reads as ""
NoState == [halted |-> "", forced_buffering |-> "", simulated_ms |-> <<>>]

\* SetHalted storing "true" whatever it is given
SetHalted_AlwaysTrue(st, halted) == [st EXCEPT !.halted = "true"]

\* SetHalted storing "1" and "0"
SetHalted_AsDigit(st, halted) == [st EXCEPT !.halted = IF halted THEN "1" ELSE "0"]

SetHalted(st, halted) == [st EXCEPT !.halted = IF halted THEN "true" ELSE "false"]

IsHalted(st) == st.halted = "true"

\* SetForcedBuffering writing under the key of the halted flag
SetForcedBuffering_HaltedKey(st, forced) ==
    [st EXCEPT !.halted = IF forced THEN "true" ELSE "false"]

SetForcedBuffering(st, forced) ==
    [st EXCEPT !.forced_buffering = IF forced THEN "true" ELSE "false"]

IsForcedBuffering(st) == st.forced_buffering = "true"

\* SetSimulatedLatency: fmt.Sprintf("%d", ms)
SetSimulatedLatency(st, ms) == [st EXCEPT !.simulated_ms = FormatInt(ms)]

GetSimulatedLatency(st) == IF st.simulated_ms = <<>> THEN 0 ELSE Sscanf(st.simulated_ms)

\* datetime('now') at the instant at, which is counted in half seconds: the
\* whole second the instant is in
DateTime(at) == at \div 2

\* RecordLatency: recorded_at is the column's default, datetime('now'); instant
\* is history and no column, the instant of the INSERT
RecordLatency(metrics, latencyMs, at) ==
    Append(metrics, [latency_ms |-> latencyMs, recorded_at |-> DateTime(at), instant |-> at])

\* the window test with "not before the cutoff" in place of "after the cutoff"
InLastMinutes_Inclusive(metrics, at, windowMinutes) ==
    {i \in 1..Len(metrics) : metrics[i].recorded_at >= DateTime(at) - 60 * windowMinutes}

\* WHERE recorded_at > datetime('now', '-' || ? || ' minutes')
InLastMinutes(metrics, at, windowMinutes) ==
    {i \in 1..Len(metrics) : metrics[i].recorded_at > DateTime(at) - 60 * windowMinutes}

RECURSIVE SumLatency(_, _)
SumLatency(metrics, ids) ==
    IF ids = {} THEN 0
    ELSE LET i == CHOOSE k \in ids : TRUE
         IN  metrics[i].latency_ms + SumLatency(metrics, ids \ {i})

\* GetAverageLatency: AVG over the window, cut to int64; 0 for NULL
GetAverageLatency(metrics, at, windowMinutes) ==
    LET ids == InLastMinutes(metrics, at, windowMinutes)
    IN  IF ids = {} THEN 0 ELSE SumLatency(metrics, ids) \div Cardinality(ids)

\* GetMaxLatency: MAX over the window; 0 for NULL
GetMaxLatency(metrics, at, windowMinutes) ==
    LET ids == InLastMinutes(metrics, at, windowMinutes)
    IN  IF ids = {} THEN 0
        ELSE LET i == CHOOSE k \in ids : \A j \in ids : metrics[j].latency_ms <= metrics[k].latency_ms
             IN  metrics[i].latency_ms

\* what status --json prints
Report(pending, st, verdict, avg, max) ==
    [pending |-> pending, halted |-> IsHalted(st), forced_buffering |-> IsForcedBuffering(st),
     simulated_ms |-> GetSimulatedLatency(st), buffering |-> verdict.Buffering,
     reason |-> verdict.Reason, avg_latency_ms |-> avg, max_latency_ms |-> max,
     threshold_ms |-> DefaultThreshold]

\* the status command on the tables at the instant at
Status(rows, metrics, st, at) ==
    LET avgLatency == GetAverageLatency(metrics, at, 1)
        maxLatency == GetMaxLatency(metrics, at, 1)
    IN  Report(GetPendingCount(rows, ""), st,
               ShouldBuffer([AvgLatency |-> avgLatency, MaxLatency |-> maxLatency,
                             Threshold |-> DefaultThreshold,
                             ForcedBuffering |-> IsForcedBuffering(st),
                             SimulatedMs |-> GetSimulatedLatency(st),
                             Halted |-> IsHalted(st)]),
               avgLatency, maxLatency)

\* the last command was not status
NoReport ==
    [pending |-> 0, halted |-> FALSE, forced_buffering |-> FALSE, simulated_ms |-> 0,
     buffering |-> FALSE, reason |-> <<>>, avg_latency_ms |-> 0, max_latency_ms |-> 0,
     threshold_ms |-> 0]

\* the arguments of simulate and of record-latency
SimulateArgs == {<<"-", "1">>, <<"0">>, <<"9", "9", "9", "9", "9">>}
LatencyArgs == {<<"1", "0", "0">>, <<"5", "0", "0", "1">>}

\* the arguments of simulate and of record-latency around the threshold, and
\* one that is no number
SimulateTexts == {<<"-", "1">>, <<"0">>, <<"5", "0", "0", "0">>, <<"5", "0", "0", "1">>,
                  <<"a", "b", "c">>}
LatencyTexts == {<<"5", "0", "0", "0">>, <<"5", "0", "0", "1">>, <<"1", "2", "a">>}

\* the instants looked at, in half seconds: 0 s, 0.5 s, 59.5 s, 60 s, 60.5 s
Instants == {0, 1, 119, 120, 121}

\* the flush commands that may run at once
Flushers == {"flush1", "flush2"}

\* a flush command at rest
Idle == [pc |-> "idle", agent_id |-> "", ids |-> {}, prompt |-> <<>>, count |-> 0]

\* ------------------------------------------------------------ initial states
IdleEval ==
    /\ snapshot = [AvgLatency |-> 0, MaxLatency |-> 0, Threshold |-> 0,
                   ForcedBuffering |-> FALSE, SimulatedMs |-> 0, Halted |-> FALSE]
    /\ result = {}

IdleTracker ==
    /\ samples = <<>>
    /\ maxSamples = 1
    /\ requested = 1
    /\ now = 0
    /\ hist = <<>>
    /\ negOnly = TRUE
    /\ ret = NoRet

IdleRender ==
    /\ thoughts = <<>>
    /\ sorted = <<>>
    /\ prompt = NoPrompt

IdleText ==
    /\ call = Input("none", <<>>)
    /\ returned = {}

IdleStore ==
    /\ buffered_thoughts = <<>>
    /\ synthesis_events = <<>>
    /\ network_metrics = <<>>
    /\ state_table = NoState
    /\ cli = NoCall
    /\ flushing = [f \in Flushers |-> Idle]
    /\ report = NoReport
    /\ clock = 0

IdleConc ==
    /\ pc = [p \in Procs |-> "idle"]
    /\ lat = [p \in Procs |-> 0]
    /\ waiting = [p \in Procs |-> FALSE]
    /\ seen = [p \in Procs |-> <<>>]
    /\ rwWriter = 0
    /\ rwActive = FALSE
    /\ rwReaders = [p \in Procs |-> 0]

InitEval ==
    /\ snapshot \in State
    /\ result = {}
    /\ IdleTracker
    /\ IdleConc
    /\ IdleRender
    /\ IdleText
    /\ IdleStore

InitConc ==
    /\ \E max \in 1..MaxCap : requested = max /\ maxSamples = NewWithMax(max)
    /\ samples = <<>>
    /\ now = 0
    /\ hist = <<>>
    /\ negOnly = TRUE
    /\ ret = NoRet
    /\ IdleEval
    /\ IdleConc
    /\ IdleRender
    /\ IdleText
    /\ IdleStore

Init ==
    /\ \E max \in (0 - 1)..MaxCap : requested = max /\ maxSamples = NewWithMax(max)
    /\ samples = <<>>
    /\ now = 0
    /\ hist = <<>>
    /\ negOnly = TRUE
    /\ ret = NoRet
    /\ IdleEval
    /\ IdleConc
    /\ IdleRender
    /\ IdleText
    /\ IdleStore

InitRender ==
    /\ thoughts \in Slices(MaxThoughts)
    /\ sorted = <<>>
    /\ prompt = NoPrompt
    /\ IdleEval
    /\ IdleTracker
    /\ IdleConc
    /\ IdleText
    /\ IdleStore

InitText ==
    /\ call \in Inputs
    /\ returned = {}
    /\ IdleEval
    /\ IdleTracker
    /\ IdleConc
    /\ IdleRender
    /\ IdleStore

\* a store just opened: the schema has made the tables and they are empty
InitStore ==
    /\ IdleStore
    /\ IdleEval
    /\ IdleTracker
    /\ IdleConc
    /\ IdleRender
    /\ IdleText

\* ------------------------------------------------------------------ actions
\* one evaluation of the snapshot
Evaluate ==
    /\ result = {}
    /\ result' = {ShouldBuffer(snapshot)}
    /\ UNCHANGED <<snapshot, trackerVars, concVars, renderVars, textVars, storeVars>>

RecordWithTime ==
    \E latencyMs \in Latencies, ts \in Times :
        /\ Len(hist) < MaxHist
        /\ samples' = Recorded(samples, maxSamples, latencyMs, ts)
        /\ hist' = Append(hist, Sample(ts, ClampLatency(latencyMs)))
        /\ negOnly' = (negOnly /\ latencyMs < 0)
        /\ ret' = Ret("RecordWithTime", latencyMs, 0, 0, 0)
        /\ UNCHANGED <<maxSamples, requested, now, evalVars, renderVars, textVars, storeVars, concVars>>

Record ==
    \E latencyMs \in Latencies :
        /\ Len(hist) < MaxHist
        /\ samples' = Recorded(samples, maxSamples, latencyMs, now)
        /\ hist' = Append(hist, Sample(now, ClampLatency(latencyMs)))
        /\ negOnly' = (negOnly /\ latencyMs < 0)
        /\ ret' = Ret("Record", latencyMs, 0, 0, 0)
        /\ UNCHANGED <<maxSamples, requested, now, evalVars, renderVars, textVars, storeVars, concVars>>

Average ==
    \E window \in Windows, fallback \in Fallbacks :
        /\ ret' = Ret("Average", 0, window, fallback,
                      AverageOf(samples, now, window, fallback))
        /\ UNCHANGED <<samples, maxSamples, requested, now, hist, negOnly, evalVars, renderVars, textVars, storeVars, concVars>>

Max ==
    \E window \in Windows, fallback \in Fallbacks :
        /\ ret' = Ret("Max", 0, window, fallback, MaxOf(samples, now, window, fallback))
        /\ UNCHANGED <<samples, maxSamples, requested, now, hist, negOnly, evalVars, renderVars, textVars, storeVars, concVars>>

Count ==
    /\ ret' = Ret("Count", 0, 0, 0, Len(samples))
    /\ UNCHANGED <<samples, maxSamples, requested, now, hist, negOnly, evalVars, renderVars, textVars, storeVars, concVars>>

Clear ==
    /\ samples' = Cleared(samples)
    /\ hist' = <<>>
    /\ negOnly' = TRUE
    /\ ret' = Ret("Clear", Len(samples), 0, 0, 0)
    /\ UNCHANGED <<maxSamples, requested, now, evalVars, renderVars, textVars, storeVars, concVars>>

ValidateLatencyCall ==
    \E ms \in Latencies :
        /\ ret' = Ret("ValidateLatency", ms, 0, 0, ValidateLatency(ms))
        /\ UNCHANGED <<samples, maxSamples, requested, now, hist, negOnly, evalVars, renderVars, textVars, storeVars, concVars>>

\* time passes
Tick ==
    /\ now < MaxTime
    /\ now' = now + 1
    /\ ret' = NoRet
    /\ UNCHANGED <<samples, maxSamples, requested, hist, negOnly, evalVars, renderVars, textVars, storeVars, concVars>>


\* a goroutine calls Record, Clear, Average, Max, Count or ToJSON
Call(p) ==
    \E l \in EntryLabels, latencyMs \in ConcLatencies :
        /\ pc[p] = "idle"
        /\ l = "rec_lock" => Len(hist) + RecordsPending < MaxConcHist
        /\ l # "rec_lock" => latencyMs = Latency100
        /\ pc' = [pc EXCEPT ![p] = l]
        /\ lat' = [lat EXCEPT ![p] = IF l = "rec_lock" THEN latencyMs ELSE 0]
        /\ UNCHANGED <<waiting, seen, rwWriter, rwActive, rwReaders,
                       samples, maxSamples, requested, now, hist, negOnly, ret, evalVars, renderVars, textVars, storeVars>>

\* t.mu.Lock(), first half: the writer announces itself (one writer at a time)
MuLock(p) ==
    /\ pc[p] \in LockLabels
    /\ rwWriter = 0
    /\ rwWriter' = p
    /\ pc' = [pc EXCEPT ![p] = Following(pc[p])]
    /\ UNCHANGED <<lat, waiting, seen, rwActive, rwReaders,
                   samples, maxSamples, requested, now, hist, negOnly, ret, evalVars, renderVars, textVars, storeVars>>

\* t.mu.Lock(), second half: the readers that held the lock have all left
MuLockAcquire(p) ==
    /\ pc[p] \in LockWaitLabels
    /\ rwWriter = p
    /\ ReadLocksHeld(rwReaders, NProcs) = 0
    /\ rwActive' = TRUE
    /\ pc' = [pc EXCEPT ![p] = Following(pc[p])]
    /\ UNCHANGED <<lat, waiting, seen, rwWriter, rwReaders,
                   samples, maxSamples, requested, now, hist, negOnly, ret, evalVars, renderVars, textVars, storeVars>>

\* RecordWithTime: clamp, then t.samples = append(t.samples, ...)
RecordAppend(p) ==
    /\ pc[p] = "rec_append"
    /\ samples' = Append(samples, Sample(now, ClampLatency(lat[p])))
    /\ hist' = Append(hist, Sample(now, ClampLatency(lat[p])))
    /\ negOnly' = (negOnly /\ lat[p] < 0)
    /\ pc' = [pc EXCEPT ![p] = Following(pc[p])]
    /\ UNCHANGED <<lat, waiting, seen, rwWriter, rwActive, rwReaders,
                   maxSamples, requested, now, ret, evalVars, renderVars, textVars, storeVars>>

\* RecordWithTime: drop the oldest sample if over max
RecordTrim(p) ==
    /\ pc[p] = "rec_trim"
    /\ samples' = DropOldest(samples, maxSamples)
    /\ pc' = [pc EXCEPT ![p] = Following(pc[p])]
    /\ UNCHANGED <<lat, waiting, seen, rwWriter, rwActive, rwReaders,
                   maxSamples, requested, now, hist, negOnly, ret, evalVars, renderVars, textVars, storeVars>>

\* Clear: t.samples = t.samples[:0]
ClearSamples(p) ==
    /\ pc[p] = "clr_clear"
    /\ samples' = Cleared(samples)
    /\ hist' = <<>>
    /\ negOnly' = TRUE
    /\ pc' = [pc EXCEPT ![p] = Following(pc[p])]
    /\ UNCHANGED <<lat, waiting, seen, rwWriter, rwActive, rwReaders,
                   maxSamples, requested, now, ret, evalVars, renderVars, textVars, storeVars>>

\* t.mu.Unlock() and return: every reader asleep in RLock gets the lock
MuUnlock(p) ==
    /\ pc[p] \in UnlockLabels
    /\ rwWriter' = 0
    /\ rwActive' = FALSE
    /\ rwReaders' = [q \in Procs |-> IF waiting[q] THEN rwReaders[q] + 1 ELSE rwReaders[q]]
    /\ waiting' = [q \in Procs |-> FALSE]
    /\ pc' = [q \in Procs |-> IF q = p \/ waiting[q] THEN Following(pc[q]) ELSE pc[q]]
    /\ lat' = [lat EXCEPT ![p] = 0]
    /\ UNCHANGED <<seen, samples, maxSamples, requested, now, hist, negOnly, ret, evalVars, renderVars, textVars, storeVars>>

\* t.mu.RLock(): take a read lock, or fall asleep if a writer is announced
MuRLock(p) ==
    /\ pc[p] \in RLockLabels
    /\ ~waiting[p]
    /\ IF ReaderMustWait(rwWriter)
       THEN /\ waiting' = [waiting EXCEPT ![p] = TRUE]
            /\ UNCHANGED <<pc, rwReaders>>
       ELSE /\ rwReaders' = [rwReaders EXCEPT ![p] = rwReaders[p] + 1]
            /\ pc' = [pc EXCEPT ![p] = Following(pc[p])]
            /\ UNCHANGED waiting
    /\ UNCHANGED <<lat, seen, rwWriter, rwActive,
                   samples, maxSamples, requested, now, hist, negOnly, ret, evalVars, renderVars, textVars, storeVars>>

\* the body of Average, Max, Count and of ToJSON's len(t.samples): t.samples is read
ReadSamples(p) ==
    /\ pc[p] \in ReadLabels
    /\ seen' = [seen EXCEPT ![p] = samples]
    /\ pc' = [pc EXCEPT ![p] = Following(pc[p])]
    /\ UNCHANGED <<lat, waiting, rwWriter, rwActive, rwReaders,
                   samples, maxSamples, requested, now, hist, negOnly, ret, evalVars, renderVars, textVars, storeVars>>

\* t.mu.RUnlock() and return
MuRUnlock(p) ==
    /\ pc[p] \in RUnlockLabels
    /\ rwReaders' = [rwReaders EXCEPT ![p] = rwReaders[p] - 1]
    /\ seen' = [seen EXCEPT ![p] = <<>>]
    /\ pc' = [pc EXCEPT ![p] = Following(pc[p])]
    /\ UNCHANGED <<lat, waiting, rwWriter, rwActive,
                   samples, maxSamples, requested, now, hist, negOnly, ret, evalVars, renderVars, textVars, storeVars>>

\* a step of the call goroutine p is in
Step(p) ==
    \/ MuLock(p)
    \/ MuLockAcquire(p)
    \/ RecordAppend(p)
    \/ RecordTrim(p)
    \/ ClearSamples(p)
    \/ MuUnlock(p)
    \/ MuRLock(p)
    \/ ReadSamples(p)
    \/ MuRUnlock(p)

\* GeneratePrompt(thoughts), the first call on the collection
GeneratePrompt ==
    /\ prompt = NoPrompt
    /\ \E q \in SortSlice(thoughts) :
           /\ sorted' = q
           /\ thoughts' = CallerSlice(thoughts, q)
           /\ prompt' = Prompt(thoughts, q)
    /\ UNCHANGED <<evalVars, trackerVars, concVars, textVars, storeVars>>

\* s with the elements at i and i + 1 exchanged
Exchanged(s, i) == [s EXCEPT ![i] = s[i + 1], ![i + 1] = s[i]]

\* GeneratePrompt called again with the same items, two neighbours exchanged
GeneratePromptReordered ==
    /\ prompt # NoPrompt
    /\ \E i \in 1..(Len(thoughts) - 1) :
           /\ \E q \in SortSlice(Exchanged(thoughts, i)) :
                  /\ sorted' = q
                  /\ thoughts' = CallerSlice(Exchanged(thoughts, i), q)
                  /\ prompt' = Prompt(Exchanged(thoughts, i), q)
    /\ UNCHANGED <<evalVars, trackerVars, concVars, textVars, storeVars>>

ValidatePriorityCall ==
    /\ call.op = "ValidatePriority"
    /\ returned = {}
    /\ returned' = {ValidatePriority(call.text)}
    /\ UNCHANGED <<call, evalVars, trackerVars, concVars, renderVars, storeVars>>

ValidateThoughtCall ==
    /\ call.op = "ValidateThought"
    /\ returned = {}
    /\ returned' = {ValidateThought(call.text)}
    /\ UNCHANGED <<call, evalVars, trackerVars, concVars, renderVars, storeVars>>

\* escapeContent(s); the value returned has no error beside it
escapeContentCall ==
    /\ call.op = "escapeContent"
    /\ returned = {}
    /\ returned' = {Return(escapeContent(call.text), ErrNone)}
    /\ UNCHANGED <<call, evalVars, trackerVars, concVars, renderVars, storeVars>>

\* the tables and the record of the call after a store call with outcome o
Stored(op, o) ==
    /\ buffered_thoughts' = o.rows
    /\ synthesis_events' = o.events
    /\ cli' = Cli(op, o.n, o.err)

\* db.InsertThought called by a program that uses the package
InsertThoughtCall ==
    \E agent \in Agents, content \in {ContentMain}, priority \in DbPriorities :
        /\ Len(buffered_thoughts) < MaxRows
        /\ \E o \in InsertThought(buffered_thoughts, synthesis_events, agent, content, priority) :
               Stored("InsertThought", o)
        /\ UNCHANGED <<network_metrics, state_table, flushing>>
        /\ report' = NoReport
        /\ UNCHANGED <<clock, evalVars, trackerVars, concVars, renderVars, textVars>>

\* antibeaver buffer storing the thought without validating it
bufferCmd_Unvalidated(agents, contents, priorities) ==
    \E agent \in agents, content \in contents, priority \in priorities :
        /\ Len(buffered_thoughts) < MaxRows
        /\ \E o \in InsertThought_DefaultsUnknown(buffered_thoughts, synthesis_events,
                                                  agent, content, priority) :
               Stored("InsertThought", o)
        /\ UNCHANGED <<network_metrics, state_table, flushing>>
        /\ report' = NoReport
        /\ UNCHANGED <<clock, evalVars, trackerVars, concVars, renderVars, textVars>>

\* antibeaver buffer, for the flags given: the thought and the priority are
\* validated, then stored
bufferCmd(agents, contents, priorities) ==
    \E agent \in agents, content \in contents, priority \in priorities :
        /\ Len(buffered_thoughts) < MaxRows
        /\ IF ValidateThought(content).err # ErrNone
           THEN /\ cli' = Cli("buffer", 0, ValidateThought(content).err)
                /\ UNCHANGED <<buffered_thoughts, synthesis_events>>
           ELSE IF ValidatePriority(priority).err # ErrNone
           THEN /\ cli' = Cli("buffer", 0, ValidatePriority(priority).err)
                /\ UNCHANGED <<buffered_thoughts, synthesis_events>>
           ELSE \E o \in InsertThought(buffered_thoughts, synthesis_events, agent,
                                       ValidateThought(content).val,
                                       ValidatePriority(priority).val) :
                    Stored("InsertThought", o)
        /\ UNCHANGED <<network_metrics, state_table, flushing>>
        /\ report' = NoReport
        /\ UNCHANGED <<clock, evalVars, trackerVars, concVars, renderVars, textVars>>

\* db.MarkSynthesized called by a program that uses the package
MarkSynthesizedCall ==
    \E agent \in Agents :
        /\ \E o \in MarkSynthesized(buffered_thoughts, synthesis_events, agent, TestOutput) :
               Stored("MarkSynthesized", o)
        /\ UNCHANGED <<network_metrics, state_table, flushing>>
        /\ report' = NoReport
        /\ UNCHANGED <<clock, evalVars, trackerVars, concVars, renderVars, textVars>>

\* antibeaver flush --agent: the pending thoughts are read and rendered, and
\* MarkSynthesized is called with the prompt; its error is not looked at
flushCmd(agents) ==
    \E agent \in agents :
        /\ \/ /\ cli' = Cli("flush", 0, ErrStorage)
              /\ UNCHANGED <<buffered_thoughts, synthesis_events>>
           \/ /\ PendingIds(buffered_thoughts, agent) = {}
              /\ cli' = Cli("flush", 0, ErrNone)
              /\ UNCHANGED <<buffered_thoughts, synthesis_events>>
           \/ /\ PendingIds(buffered_thoughts, agent) # {}
              /\ \E read \in GetPendingThoughts(buffered_thoughts, agent) :
                     \E out \in Prompts(read) :
                         \E o \in MarkSynthesized(buffered_thoughts, synthesis_events,
                                                  agent, out) :
                             Stored("MarkSynthesized", o)
        /\ UNCHANGED <<network_metrics, state_table, flushing>>
        /\ report' = NoReport
        /\ UNCHANGED <<clock, evalVars, trackerVars, concVars, renderVars, textVars>>

\* antibeaver flush --all: every agent GetPendingAgents gives, in the order it
\* gives them; the record holds an error when some statement failed
flushAllCmd ==
    /\ \/ /\ cli' = Cli("flush --all", 0, ErrStorage)
          /\ UNCHANGED <<buffered_thoughts, synthesis_events>>
       \/ \E agents \in Orders(GetPendingAgents(buffered_thoughts)) :
              \E o \in FlushEach(buffered_thoughts, synthesis_events, agents) :
                  Stored("flush --all", o)
    /\ UNCHANGED <<network_metrics, state_table, flushing>>
    /\ report' = NoReport
    /\ UNCHANGED <<clock, evalVars, trackerVars, concVars, renderVars, textVars>>

\* a command that writes to table state or network_metrics only; err is what
\* its writes returned, which the command does not look at
Governed(op, err) ==
    /\ cli' = Cli(op, 0, err)
    /\ UNCHANGED <<buffered_thoughts, synthesis_events, flushing>>
    /\ report' = NoReport
    /\ UNCHANGED <<clock, evalVars, trackerVars, concVars, renderVars, textVars>>

\* antibeaver halt: SetHalted(true), whose error is not looked at
haltCmd ==
    /\ \E err \in {ErrNone, ErrStorage} :
           /\ state_table' = IF err = ErrNone THEN SetHalted(state_table, TRUE) ELSE state_table
           /\ Governed("halt", err)
    /\ UNCHANGED network_metrics

\* antibeaver resume: three writes, none of whose errors is looked at
resumeCmd ==
    /\ \E e1, e2, e3 \in {ErrNone, ErrStorage} :
           LET s1 == IF e1 = ErrNone THEN SetHalted(state_table, FALSE) ELSE state_table
               s2 == IF e2 = ErrNone THEN SetForcedBuffering(s1, FALSE) ELSE s1
               s3 == IF e3 = ErrNone THEN SetSimulatedLatency(s2, 0) ELSE s2
           IN  /\ state_table' = s3
               /\ Governed("resume", IF {e1, e2, e3} = {ErrNone} THEN ErrNone ELSE ErrStorage)
    /\ UNCHANGED network_metrics

\* antibeaver force: SetForcedBuffering(true)
forceCmd ==
    /\ \E err \in {ErrNone, ErrStorage} :
           /\ state_table' = IF err = ErrNone THEN SetForcedBuffering(state_table, TRUE)
                             ELSE state_table
           /\ Governed("force", err)
    /\ UNCHANGED network_metrics

\* simulate storing a negative argument as it is
Clamp_Kept(ms) == ms

\* "if ms < 0 { ms = 0 }" of simulate
Clamp(ms) == IF ms < 0 THEN 0 ELSE ms

\* antibeaver simulate: the argument is parsed, a negative one is stored as 0
simulateCmd(args) ==
    /\ \E arg \in args :
           IF ParseInt(arg).err # ErrNone
           THEN /\ UNCHANGED state_table
                /\ Governed("simulate", ErrInvalidLatency)
           ELSE \E err \in {ErrNone, ErrStorage} :
                    /\ state_table' = IF err = ErrNone
                                      THEN SetSimulatedLatency(state_table, Clamp(ParseInt(arg).val))
                                      ELSE state_table
                    /\ Governed("simulate", err)
    /\ UNCHANGED network_metrics

\* antibeaver record-latency: the argument is parsed, ValidateLatency, then
\* RecordLatency
recordLatencyCmd(args) ==
    /\ Len(network_metrics) < MaxMetrics
    /\ \E arg \in args :
           IF ParseInt(arg).err # ErrNone
           THEN /\ UNCHANGED network_metrics
                /\ Governed("record-latency", ErrInvalidLatency)
           ELSE \E err \in {ErrNone, ErrStorage} :
                    /\ network_metrics' = IF err = ErrNone
                                          THEN RecordLatency(network_metrics,
                                                             ValidateLatency(ParseInt(arg).val),
                                                             clock)
                                          ELSE network_metrics
                    /\ Governed("record-latency", err)
    /\ UNCHANGED state_table

\* antibeaver status: it reads the tables and writes to none
statusCmd ==
    /\ cli' = Cli("status", 0, ErrNone)
    /\ report' = Status(buffered_thoughts, network_metrics, state_table, clock)
    /\ UNCHANGED <<tableVars, flushing>>
    /\ UNCHANGED <<clock, evalVars, trackerVars, concVars, renderVars, textVars>>

\* time passes between two commands, up to a later one of the instants
TimePasses ==
    /\ \E at \in Instants : at > clock /\ clock' = at
    /\ cli' = NoCall
    /\ report' = NoReport
    /\ UNCHANGED <<tableVars, flushing>>
    /\ UNCHANGED <<evalVars, trackerVars, concVars, renderVars, textVars>>

\* ------------------------------------------- two commands on one database file
\* a flush command starts: it reads the pending thoughts of the agent and
\* renders them; with none to read it ends
FlushRead(f, agents) ==
    \E agent \in agents :
        /\ flushing[f].pc = "idle"
        /\ PendingIds(buffered_thoughts, agent) # {}
        /\ \E read \in GetPendingThoughts(buffered_thoughts, agent) :
               \E out \in Prompts(read) :
                   flushing' = [flushing EXCEPT
                                    ![f] = [pc |-> "count", agent_id |-> agent,
                                            ids |-> PendingIds(buffered_thoughts, agent),
                                            prompt |-> out, count |-> 0]]
        /\ UNCHANGED <<tableVars, cli>>
        /\ report' = NoReport
        /\ UNCHANGED <<clock, evalVars, trackerVars, concVars, renderVars, textVars>>

\* MarkSynthesized, first statement: GetPendingCount; with a count of 0 it returns
FlushCount(f) ==
    /\ flushing[f].pc = "count"
    /\ flushing' = [flushing EXCEPT
                        ![f] = IF GetPendingCount(buffered_thoughts, flushing[f].agent_id) = 0
                               THEN Idle
                               ELSE [flushing[f] EXCEPT
                                         !.pc = "update",
                                         !.count = GetPendingCount(buffered_thoughts,
                                                                   flushing[f].agent_id)]]
    /\ UNCHANGED <<tableVars, cli>>
    /\ report' = NoReport
    /\ UNCHANGED <<clock, evalVars, trackerVars, concVars, renderVars, textVars>>

\* MarkSynthesized, second statement: the UPDATE
FlushUpdate(f) ==
    /\ flushing[f].pc = "update"
    /\ buffered_thoughts' = Synthesize(buffered_thoughts, flushing[f].agent_id)
    /\ flushing' = [flushing EXCEPT ![f].pc = "insert"]
    /\ UNCHANGED <<synthesis_events, network_metrics, state_table, cli>>
    /\ report' = NoReport
    /\ UNCHANGED <<clock, evalVars, trackerVars, concVars, renderVars, textVars>>

\* MarkSynthesized, third statement: the INSERT of the event; the command ends
FlushInsert(f) ==
    /\ flushing[f].pc = "insert"
    /\ synthesis_events' = Append(synthesis_events,
                                  SynthesisEvent(flushing[f].agent_id, flushing[f].count,
                                                 flushing[f].prompt))
    /\ flushing' = [flushing EXCEPT ![f] = Idle]
    /\ UNCHANGED <<buffered_thoughts, network_metrics, state_table, cli>>
    /\ report' = NoReport
    /\ UNCHANGED <<clock, evalVars, trackerVars, concVars, renderVars, textVars>>

NextConc == \E p \in Procs : Call(p) \/ Step(p)

NextEval == Evaluate

Next ==
    \/ RecordWithTime
    \/ Record
    \/ Average
    \/ Max
    \/ Count
    \/ Clear
    \/ ValidateLatencyCall
    \/ Tick

Spec == Init /\ [][Next]_vars
SpecEval == InitEval /\ [][NextEval]_vars
SpecConc == InitConc /\ [][NextConc]_vars

NextRender == GeneratePrompt \/ GeneratePromptReordered

SpecRender == InitRender /\ [][NextRender]_vars

NextText == ValidatePriorityCall \/ ValidateThoughtCall \/ escapeContentCall

SpecText == InitText /\ [][NextText]_vars

NextStore ==
    \/ InsertThoughtCall
    \/ bufferCmd(Agents, CliContents, CliPriorities)
    \/ MarkSynthesizedCall
    \/ flushCmd(Agents)
    \/ flushAllCmd

\* the calls and commands that write thoughts and events, one after another on
\* one database file
SpecStore == InitStore /\ [][NextStore]_vars

NextCommands ==
    \/ bufferCmd({"main"}, {ContentMain}, {""})
    \/ flushCmd({"main"})
    \/ flushAllCmd
    \/ haltCmd
    \/ resumeCmd
    \/ forceCmd
    \/ simulateCmd(SimulateArgs)
    \/ recordLatencyCmd(LatencyArgs)
    \/ statusCmd

\* every command of the CLI, one after another on one database file
SpecCommands == InitStore /\ [][NextCommands]_vars

NextFlushRace ==
    \/ bufferCmd({"main"}, {ContentMain, ContentTest}, {""})
    \/ \E f \in Flushers :
           FlushRead(f, {"main"}) \/ FlushCount(f) \/ FlushUpdate(f) \/ FlushInsert(f)

\* buffer and flush commands run as processes of their own on one database
\* file, statement by statement
SpecFlushRace == InitStore /\ [][NextFlushRace]_vars

NextGovern ==
    \/ haltCmd
    \/ resumeCmd
    \/ forceCmd
    \/ simulateCmd(SimulateTexts)
    \/ recordLatencyCmd(LatencyTexts)
    \/ statusCmd
    \/ TimePasses

\* the commands that govern buffering, with time passing between them
SpecGovern == InitStore /\ [][NextGovern]_vars

NextBuffer == bufferCmd(Agents, CliContents, BufferPriorities) \/ flushCmd({"main"})

\* buffer commands with every kind of content and priority flag, and flushes
\* of one agent between them
SpecBuffer == InitStore /\ [][NextBuffer]_vars

\* ------------------------------------------------- claims: decision engine
\* the snapshot has been evaluated
Evaluated == result # {}

\* C1: whenever the snapshot is halted the verdict buffers, reports latency 0
\* and carries the halt reason, which is the reason of no later branch,
\* whatever the other five signals are.
C1_HaltDominates ==
    \A r \in result :
        snapshot.Halted =>
            /\ r.Buffering = TRUE
            /\ r.LatencyMs = 0
            /\ r.Reason = ReasonHalted
            /\ r.Reason \notin {ReasonForced, ReasonHealthy,
                                ReasonSimulated(snapshot.SimulatedMs),
                                ReasonLatency(snapshot.MaxLatency, snapshot.Threshold)}

\* a halted snapshot whose forced, simulated and measured signals would all fire
C1_Witness ==
    /\ Evaluated
    /\ snapshot.Halted
    /\ snapshot.ForcedBuffering
    /\ snapshot.SimulatedMs > snapshot.Threshold
    /\ snapshot.MaxLatency > snapshot.Threshold
    /\ snapshot.AvgLatency > 0

\* C2 as stated: the reason of a halted snapshot is exactly "system halted".
C2_ReasonIsLowerCase ==
    \A r \in result :
        snapshot.Halted =>
            r.Reason = <<"s", "y", "s", "t", "e", "m", " ", "h", "a", "l", "t", "e", "d">>

\* C2 (amended): the reason of a halted snapshot is exactly "SYSTEM HALTED".
C2_ReasonIsUpperCase ==
    \A r \in result :
        snapshot.Halted =>
            r.Reason = <<"S", "Y", "S", "T", "E", "M", " ", "H", "A", "L", "T", "E", "D">>

\* halted=true, forced=true, simulated=99999, threshold=5000 has been evaluated
C2_Witness ==
    /\ Evaluated
    /\ snapshot.Halted
    /\ snapshot.ForcedBuffering
    /\ snapshot.SimulatedMs = SimulatedHigh
    /\ snapshot.Threshold = DefaultThreshold

\* C3: not halted and forced: the verdict buffers with reason exactly
\* "manual override" and reports the measured average, whatever the simulated
\* latency, the measured maximum and the threshold.
C3_ForcedOverride ==
    \A r \in result :
        (~snapshot.Halted /\ snapshot.ForcedBuffering) =>
            /\ r.Buffering = TRUE
            /\ r.Reason = <<"m", "a", "n", "u", "a", "l", " ",
                            "o", "v", "e", "r", "r", "i", "d", "e">>
            /\ r.LatencyMs = snapshot.AvgLatency

\* forced, with simulated and measured maximum both far above the threshold
C3_Witness ==
    /\ Evaluated
    /\ ~snapshot.Halted
    /\ snapshot.ForcedBuffering
    /\ snapshot.SimulatedMs = SimulatedHigh
    /\ snapshot.MaxLatency = SimulatedHigh
    /\ snapshot.Threshold < DefaultThreshold
    /\ snapshot.AvgLatency # snapshot.MaxLatency

\* the reason is that of the simulated branch and names the value ms
IsSimulatedReason(reason, ms) ==
    /\ Len(reason) > 10
    /\ SubSeq(reason, 1, 10) = <<"s", "i", "m", "u", "l", "a", "t", "e", "d", " ">>
    /\ Contains(reason, FormatInt(ms))

\* C4: not halted, not forced: the simulated branch fires exactly when the
\* simulated latency is strictly above the threshold; it then buffers with a
\* reason containing the simulated value, also when the measured maximum is
\* above the threshold too.
C4_SimulatedBranch ==
    \A r \in result :
        (~snapshot.Halted /\ ~snapshot.ForcedBuffering) =>
            /\ snapshot.SimulatedMs > snapshot.Threshold =>
                   /\ r.Buffering = TRUE
                   /\ IsSimulatedReason(r.Reason, snapshot.SimulatedMs)
            /\ snapshot.SimulatedMs <= snapshot.Threshold =>
                   ~IsSimulatedReason(r.Reason, snapshot.SimulatedMs)

\* simulated and measured maximum both above the threshold, with different values
C4_Witness ==
    /\ Evaluated
    /\ ~snapshot.Halted
    /\ ~snapshot.ForcedBuffering
    /\ snapshot.SimulatedMs > snapshot.Threshold
    /\ snapshot.MaxLatency > snapshot.Threshold
    /\ snapshot.MaxLatency # snapshot.SimulatedMs

\* no halt, no forced override, simulated latency not above the threshold
MeasuredDecides ==
    /\ ~snapshot.Halted
    /\ ~snapshot.ForcedBuffering
    /\ snapshot.SimulatedMs <= snapshot.Threshold

\* C5: when the measured latency decides, the verdict buffers exactly when the
\* measured maximum is strictly above the threshold (never at the threshold,
\* always at threshold + 1, never because of the average), and the reason then
\* contains the maximum and the threshold.
C5_MeasuredMaxStrict ==
    \A r \in result :
        MeasuredDecides =>
            /\ r.Buffering = (snapshot.MaxLatency > snapshot.Threshold)
            /\ snapshot.MaxLatency = snapshot.Threshold => r.Buffering = FALSE
            /\ snapshot.MaxLatency = snapshot.Threshold + 1 =>
                   /\ r.Buffering = TRUE
                   /\ Contains(r.Reason, FormatInt(snapshot.MaxLatency) \o <<"m", "s">>)
                   /\ Contains(r.Reason, FormatInt(snapshot.Threshold) \o <<"m", "s">>)
            /\ (snapshot.AvgLatency > snapshot.Threshold
                   /\ snapshot.MaxLatency <= snapshot.Threshold) => r.Buffering = FALSE

\* the measured maximum exactly at the threshold of 5000, the average above it
C5_Witness ==
    /\ Evaluated
    /\ MeasuredDecides
    /\ snapshot.Threshold = DefaultThreshold
    /\ snapshot.MaxLatency = DefaultThreshold
    /\ snapshot.AvgLatency = DefaultThreshold + 1

\* C6: every snapshot, a negative threshold included, gets exactly one verdict;
\* it passes through exactly when not halted, not forced, simulated <= threshold
\* and maximum <= threshold, and then the reason is exactly "healthy" and the
\* reported latency is the measured average.
C6_TotalAndHealthy ==
    Evaluated =>
        /\ Cardinality(result) = 1
        /\ \A r \in result :
            /\ r.Buffering \in BOOLEAN
            /\ r.LatencyMs \in Int
            /\ r.Buffering = FALSE <=>
                   /\ ~snapshot.Halted
                   /\ ~snapshot.ForcedBuffering
                   /\ snapshot.SimulatedMs <= snapshot.Threshold
                   /\ snapshot.MaxLatency <= snapshot.Threshold
            /\ r.Buffering = FALSE =>
                   /\ r.Reason = <<"h", "e", "a", "l", "t", "h", "y">>
                   /\ r.LatencyMs = snapshot.AvgLatency

\* a healthy snapshot with a negative threshold
C6_Witness ==
    /\ Evaluated
    /\ snapshot.Threshold < 0
    /\ \E r \in result : r.Buffering = FALSE
    /\ snapshot.AvgLatency # snapshot.MaxLatency

\* ---------------------------------------------------------- claims: tracker
Min(a, b) == IF a < b THEN a ELSE b

\* the last k elements of s
LastK(s, k) == IF Len(s) <= k THEN s ELSE SubSeq(s, Len(s) - k + 1, Len(s))

\* the largest element of a non-empty set of integers
Largest(S) == CHOOSE m \in S : \A x \in S : x <= m

\* the window of the last query covers every sample recorded since the last Clear
WindowCoversAll == \A i \in 1..Len(hist) : hist[i].Timestamp > now - ret.window

\* C7: Count never exceeds the capacity K; after K+M insertions it is K; the
\* retained samples are exactly the K most recently inserted ones in insertion
\* order (each over-capacity Record evicted the earliest-inserted one), and Max
\* over a window covering all samples is the maximum of those K alone.
C7_BoundedFifo ==
    /\ Len(samples) <= maxSamples
    /\ Len(samples) = Min(Len(hist), maxSamples)
    /\ samples = LastK(hist, maxSamples)
    /\ ret.op = "Count" => ret.val = Min(Len(hist), maxSamples)
    /\ (ret.op = "Max" /\ hist # <<>> /\ WindowCoversAll) =>
           ret.val = Largest({LastK(hist, maxSamples)[i].LatencyMs :
                                 i \in 1..Min(Len(hist), maxSamples)})

\* more samples inserted than a capacity of at least 2 holds, and Max returned
\* less than the magnitude of the evicted first sample
C7_Witness ==
    /\ maxSamples >= 2
    /\ Len(hist) > maxSamples
    /\ ret.op = "Max"
    /\ WindowCoversAll
    /\ hist[1].LatencyMs > ret.val

\* positions of the retained samples that the last query's window holds
RetainedInWindow == {i \in 1..Len(samples) : samples[i].Timestamp > now - ret.window}

\* C10: every retained sample has magnitude >= 0; a Record / RecordWithTime of
\* a negative latency stores exactly 0 and of a non-negative one the value
\* itself; ValidateLatency returns 0 for a negative and the value itself for a
\* non-negative input; Average over in-window samples that were all recorded
\* negative is 0, not the fallback.
C10_NegativeClamped ==
    /\ \A i \in 1..Len(samples) : samples[i].LatencyMs >= 0
    /\ ret.op \in {"Record", "RecordWithTime"} =>
           /\ samples # <<>>
           /\ samples[Len(samples)].LatencyMs = (IF ret.arg < 0 THEN 0 ELSE ret.arg)
    /\ ret.op = "ValidateLatency" => ret.val = (IF ret.arg < 0 THEN 0 ELSE ret.arg)
    /\ (/\ ret.op = "Average"
        /\ RetainedInWindow # {}
        /\ negOnly) => ret.val = 0

\* Average with a non-zero fallback over in-window samples all recorded negative
C10_Witness ==
    /\ ret.op = "Average"
    /\ ret.fallback = Fallback
    /\ RetainedInWindow # {}
    /\ negOnly
    /\ ret.val = 0

\* ----------------------------------------------- claims: concurrent tracker
\* some call is under way
CallsUnderWay == \E p \in Procs : pc[p] # "idle"

\* C8 as stated: no call is left blocked forever.  Whenever calls are under
\* way, at least one of them can take its next step (a state in which none can
\* is one in which no lock is ever released again, so none of them returns).
C8_SomeCallCanStep ==
    CallsUnderWay => \E p \in Procs : pc[p] # "idle" /\ ENABLED Step(p)

\* no call under way can take a step
Stuck == CallsUnderWay /\ \A p \in Procs : ~ENABLED Step(p)

\* once no call under way can take a step, none ever can again: starting
\* further calls does not release the lock
StuckForever == [][Stuck => Stuck']_vars

\* the samples slice as it stands after every Record that has appended since
\* the last Clear, at capacity maxSamples
Committed == LastK(hist, maxSamples)

\* goroutine p has just read t.samples and still holds its read lock
HasRead(p) == \E l \in ReadLabels : pc[p] = Following(l)

\* C9: a call that has read t.samples (Average, Max, Count) has seen exactly
\* the slice left by the Records completed so far, never more than the
\* capacity; and whenever no writer holds the lock no Record is lost or
\* half-applied: Count is min(number of Records since the last Clear, capacity)
\* and the retained samples are the most recent ones.
C9_RecordsAtomic ==
    /\ \A p \in Procs :
           HasRead(p) =>
               /\ seen[p] = Committed
               /\ Len(seen[p]) <= maxSamples
    /\ ~rwActive =>
           /\ Len(samples) = Min(Len(hist), maxSamples)
           /\ samples = Committed

\* a reader has read the full slice while another Record waits for the lock,
\* after more Records than the capacity holds
C9_Witness ==
    \E p \in Procs, q \in Procs :
        /\ pc[p] = "cnt_runlock"
        /\ pc[q] = "rec_wait"
        /\ Len(hist) > maxSamples
        /\ Len(seen[p]) = maxSamples

\* ------------------------------------------------- claims: tracker queries
RECURSIVE SumOver(_)
\* the sum of the magnitudes of the retained samples at the positions I
SumOver(I) ==
    IF I = {} THEN 0
    ELSE LET i == CHOOSE j \in I : TRUE
         IN samples[i].LatencyMs + SumOver(I \ {i})

\* C11: Average returns the fallback, whatever it is, when no retained sample
\* is stamped strictly after now - window, and otherwise the mean, truncated
\* toward zero, of exactly the samples that are (one stamped at now - window is
\* left out); the retained samples are as they were before the call.
C11_AverageWindowed ==
    ret.op = "Average" =>
        /\ RetainedInWindow = {} => ret.val = ret.fallback
        /\ RetainedInWindow # {} =>
               /\ ret.val * Cardinality(RetainedInWindow) <= SumOver(RetainedInWindow)
               /\ SumOver(RetainedInWindow) < (ret.val + 1) * Cardinality(RetainedInWindow)
        /\ samples = LastK(hist, maxSamples)

\* Average over a sample of 100 stamped exactly at now - window and a later
\* sample of 0
C11_Witness ==
    /\ ret.op = "Average"
    /\ ret.fallback = Fallback
    /\ ret.val = 0
    /\ RetainedInWindow # {}
    /\ \E i \in 1..Len(samples) :
           /\ samples[i].Timestamp = now - ret.window
           /\ samples[i].LatencyMs = Latency100

\* C12: Max returns the fallback when no retained sample is stamped strictly
\* after now - window, and otherwise the largest magnitude among those that
\* are, also when that magnitude is 0.
C12_MaxWindowed ==
    ret.op = "Max" =>
        /\ RetainedInWindow = {} => ret.val = ret.fallback
        /\ RetainedInWindow # {} =>
               ret.val = Largest({samples[i].LatencyMs : i \in RetainedInWindow})

\* Max with fallback 42 over in-window samples that all have magnitude 0,
\* a larger sample lying outside the window
C12_Witness ==
    /\ ret.op = "Max"
    /\ ret.fallback = Fallback
    /\ RetainedInWindow # {}
    /\ \A i \in RetainedInWindow : samples[i].LatencyMs = 0
    /\ \E i \in 1..Len(samples) : i \notin RetainedInWindow /\ samples[i].LatencyMs = Latency100
    /\ ret.val = 0

\* C13: a Tracker requested with capacity 0 or less has capacity exactly 1;
\* every Record returns no error, Count is 1 once anything was recorded, and
\* the one retained sample is the most recently recorded one.
C13_CapacityFloor ==
    requested <= 0 =>
        /\ maxSamples = 1
        /\ ret.op \in {"Record", "RecordWithTime"} => ret.val = 0
        /\ hist # <<>> => samples = <<hist[Len(hist)]>>
        /\ ret.op = "Count" => ret.val = (IF hist = <<>> THEN 0 ELSE 1)

\* a Tracker requested with a negative capacity, after several Records whose
\* last differs from the first, answering Count
C13_Witness ==
    /\ requested < 0
    /\ Len(hist) >= 2
    /\ hist[1] # hist[Len(hist)]
    /\ ret.op = "Count"
    /\ ret.val = 1

\* C14: after Clear nothing is retained, whatever was retained before (nothing
\* included), the capacity is the configured one at all times, and Count is the
\* number of retained samples whatever their timestamps.
C14_ClearAndCount ==
    /\ ret.op = "Clear" => samples = <<>> /\ Len(samples) = 0
    /\ maxSamples = (IF requested <= 0 THEN 1 ELSE requested)
    /\ ret.op = "Count" => ret.val = Len(samples)

\* Clear on a Tracker of capacity 2 that held 2 samples
C14_Witness ==
    /\ ret.op = "Clear"
    /\ ret.arg = 2
    /\ maxSamples = 2
    /\ samples = <<>>

\* ------------------------------------------------- claims: synthesis prompt
\* GeneratePrompt has returned
Rendered == prompt # NoPrompt

\* the first position of the character c in s
FirstIndex(s, c) == CHOOSE i \in 1..Len(s) : s[i] = c /\ \A j \in 1..(i - 1) : s[j] # c

RECURSIVE SplitLines(_)
\* the lines of a text
SplitLines(s) ==
    IF \A i \in 1..Len(s) : s[i] # "\n" THEN <<s>>
    ELSE <<SubSeq(s, 1, FirstIndex(s, "\n") - 1)>>
             \o SplitLines(SubSeq(s, FirstIndex(s, "\n") + 1, Len(s)))

\* the numbered lines of the prompt: they follow the title, the summary clause
\* and the empty line after each
ItemLines == SubSeq(SplitLines(prompt), 5, 4 + Len(thoughts))

\* a and b are in the same priority tier and have the same creation timestamp
SameKeys(a, b) ==
    priorityOrder(a.Priority) = priorityOrder(b.Priority) /\ a.CreatedAt = b.CreatedAt

\* the elements of s that have the keys of t, in the order they have in s
WithKeysOf(s, t) == LET Same(u) == SameKeys(u, t) IN SelectSeq(s, Same)

\* C15: calling GeneratePrompt again with the same items in any other order
\* returns the same text, byte for byte, also when two items have the same
\* priority tier and creation timestamp and different content.
C15_OrderInvariant ==
    [][(Rendered /\ thoughts' \in Rearranged(thoughts)) => prompt' = prompt]_vars

\* C16: the numbered lines are the items ordered by priority tier, then by
\* creation timestamp ascending within a tier, and items equal on both keys
\* keep the relative order they have in the input.
C16_SortedStable ==
    (Rendered /\ thoughts # <<>>) =>
        /\ ItemLines = Lines(sorted)
        /\ \A i, j \in 1..Len(sorted) :
               i < j =>
                   /\ priorityOrder(sorted[i].Priority) <= priorityOrder(sorted[j].Priority)
                   /\ priorityOrder(sorted[i].Priority) = priorityOrder(sorted[j].Priority)
                          => ~StringLess(sorted[j].CreatedAt, sorted[i].CreatedAt)
        /\ \A t \in Thought : WithKeysOf(sorted, t) = WithKeysOf(thoughts, t)

\* C17: for an empty collection GeneratePrompt returns the empty-backlog
\* notice and nothing else: no numbered line, no item count, no critical note,
\* no task instructions.
C17_EmptyNotice ==
    (Rendered /\ thoughts = <<>>) =>
        /\ prompt = EmptyNotice
        /\ ~Contains(prompt, <<"1", ".">>)
        /\ ~Contains(prompt, <<"y", "o", "u", " ", "d", "r", "a", "f", "t", "e", "d">>)
        /\ ~Contains(prompt, <<"*", "*", "N", "o", "t", "e", ":", "*", "*">>)
        /\ ~Contains(prompt, <<"*", "*", "T", "A", "S", "K", ":", "*", "*">>)

\* GeneratePrompt has returned for the empty collection
C17_Witness ==
    /\ Rendered
    /\ thoughts = <<>>
    /\ Contains(prompt, <<"N", "o", " ", "b", "u", "f", "f", "e", "r", "e", "d", " ", "t", "h", "o", "u", "g", "h",
      "t", "s">>)

\* what a numbered line has between its timestamp and its quoted content
TagSlot(line) == SubSeq(line, FirstIndex(line, "]") + 1, FirstIndex(line, "\"") - 1)

LiteralCritical == <<"[", "C", "R", "I", "T", "I", "C", "A", "L", "]">>
LiteralLow == <<"[", "l", "o", "w", "]">>

\* every numbered line has "[CRITICAL]" ahead of its content exactly when its
\* item is P0, "[low]" exactly when it is P2, and nothing when it is P1
LinesTagged ==
    LET lines == ItemLines
    IN  /\ Len(lines) = Len(sorted)
        /\ \A i \in 1..Len(lines) :
               LET slot == TagSlot(lines[i])
               IN  /\ Contains(slot, LiteralCritical) <=> sorted[i].Priority = "P0"
                   /\ Contains(slot, LiteralLow) <=> sorted[i].Priority = "P2"
                   /\ sorted[i].Priority = "P1" => slot = <<" ">>

\* every item is P1
OnlyNormal == \A i \in 1..Len(thoughts) : thoughts[i].Priority = "P1"

\* no item's content has the text of a tag in it
NoTagInContent ==
    \A i \in 1..Len(thoughts) :
        /\ ~Contains(thoughts[i].Content, LiteralCritical)
        /\ ~Contains(thoughts[i].Content, LiteralLow)

\* C18 as stated: every numbered line is tagged by its item's tier, and the
\* prompt of a collection of P1 items contains neither "[CRITICAL]" nor "[low]".
C18_TagsAndNoneForNormal ==
    (Rendered /\ thoughts # <<>>) =>
        /\ LinesTagged
        /\ OnlyNormal =>
               ~Contains(prompt, LiteralCritical) /\ ~Contains(prompt, LiteralLow)

\* C18, amended: every numbered line is tagged by its item's tier, and the
\* prompt of a collection of P1 items none of whose contents has "[CRITICAL]"
\* or "[low]" in it contains neither.
C18_TagsByTier ==
    (Rendered /\ thoughts # <<>>) =>
        /\ LinesTagged
        /\ (OnlyNormal /\ NoTagInContent) =>
               ~Contains(prompt, LiteralCritical) /\ ~Contains(prompt, LiteralLow)

\* the prompt of two P1 items whose contents have no tag text in them
C18_Witness ==
    /\ Rendered
    /\ Len(thoughts) = 2
    /\ OnlyNormal
    /\ NoTagInContent
    /\ TagSlot(ItemLines[2]) = <<" ">>

\* the number of P0 items in the input
Criticals == Cardinality({i \in 1..Len(thoughts) : thoughts[i].Priority = "P0"})

\* the words of the critical note that follow the count
NoteWording ==
    <<"C", "R", "I", "T", "I", "C", "A", "L", " ", "t", "h", "o", "u", "g", "h", "t", "(", "s", ")">>

\* the critical note stating the count k, from the empty line ahead of it
NoteStating(k) ==
    <<"\n", "\n", "*", "*", "N", "o", "t", "e", ":", "*", "*", " ">>
        \o FormatInt(k) \o <<" ">> \o NoteWording

SummaryStating(k, word) ==
    <<"y", "o", "u", " ", "d", "r", "a", "f", "t", "e", "d">> \o <<" ">>
        \o FormatInt(k) \o <<" ">> \o word \o <<":", "\n">>

Singular == <<"m", "e", "s", "s", "a", "g", "e">>
Plural == <<"m", "e", "s", "s", "a", "g", "e", "s">>

\* C20: the summary clause states the number of input items, with "message"
\* when that number is 1 and "messages" when it is any other.
C20_SummaryClause ==
    (Rendered /\ thoughts # <<>>) =>
        \A k \in 0..(MaxThoughts + 1), word \in {Singular, Plural} :
            Contains(prompt, SummaryStating(k, word))
                <=> (k = Len(thoughts) /\ (word = Singular <=> k = 1))

\* the prompt of a single item
C20_Witness ==
    /\ Rendered
    /\ Len(thoughts) = 1
    /\ Contains(prompt, SummaryStating(1, Singular))
    /\ ~Contains(prompt, Plural)

\* ---------------------------------------------------- escaping and validators
RECURSIVE ReplaceAllText(_, _, _)
\* strings.ReplaceAll for an old text of any positive length: the occurrences
\* are taken from the left and do not overlap
ReplaceAllText(s, old, new) ==
    IF Len(s) < Len(old) THEN s
    ELSE IF SubSeq(s, 1, Len(old)) = old
    THEN new \o ReplaceAllText(SubSeq(s, Len(old) + 1, Len(s)), old, new)
    ELSE <<s[1]>> \o ReplaceAllText(Tail(s), old, new)

\* the three substitutions of escapeContent undone, the last one first
Reversal(s) ==
    ReplaceAllText(ReplaceAllText(ReplaceAllText(s, <<"\\", "n">>, <<"\n">>),
                                  <<"\\", "\"">>, <<"\"">>),
                   <<"\\", "\\">>, <<"\\">>)

\* the value escapeContent returned for the content s
Escaped(s) == call = Input("escapeContent", s) /\ returned # {}

BackslashBeforeN(s) == Contains(s, <<"\\", "n">>)

\* C21 as stated: for every content, undoing the three substitutions in the
\* reverse order gives the content back
C21_RoundTrip ==
    \A r \in returned : call.op = "escapeContent" => Reversal(r.val) = call.text

\* C21: for every content in which no backslash stands right before the letter
\* n, undoing the three substitutions in the reverse order gives the content back
C21_RoundTripWithoutBackslashN ==
    \A r \in returned :
        (call.op = "escapeContent" /\ ~BackslashBeforeN(call.text))
            => Reversal(r.val) = call.text

C21_Witness ==
    /\ Escaped(<<"\\", "\"", "\n">>)
    /\ \A r \in returned :
           /\ r.val = <<"\\", "\\", "\\", "\"", "\\", "n">>
           /\ Reversal(r.val) = call.text

\* C22: ValidatePriority gives "P1" and no error for the empty token, the token
\* itself and no error for P0, P1 and P2, and an invalid-priority error and no
\* tier for every other token
C22_PriorityValidated ==
    \A r \in returned :
        call.op = "ValidatePriority" =>
            /\ call.text = "" => r = Return("P1", ErrNone)
            /\ call.text \in {"P0", "P1", "P2"} => r = Return(call.text, ErrNone)
            /\ call.text \notin {"", "P0", "P1", "P2"} =>
                   r.err = ErrInvalidPriority /\ r.val \notin {"P0", "P1", "P2"}

C22_Witness ==
    /\ call = Input("ValidatePriority", "p1")
    /\ \E r \in returned : r.err = ErrInvalidPriority

\* the bytes of s are all whitespace (none at all included)
Blank(s) == \A i \in 1..Len(s) : IsSpace(s[i])

\* C23: ValidateThought gives the empty-content error for a content of no byte
\* or of whitespace only; for any other content it gives no error and the
\* content as it came, cut to its first 50000 bytes when it is longer
C23_ThoughtValidated ==
    \A r \in returned :
        call.op = "ValidateThought" =>
            /\ Blank(call.text) => r.err = ErrEmptyContent
            /\ ~Blank(call.text) =>
                   /\ r.err = ErrNone
                   /\ Len(r.val) = IF Len(call.text) > MaxContentBytes
                                   THEN MaxContentBytes ELSE Len(call.text)
                   /\ \A i \in 1..Len(r.val) : r.val[i] = call.text[i]

C23_Witness ==
    /\ call.op = "ValidateThought"
    /\ Len(call.text) = MaxContentBytes + 2
    /\ call.text[1] = " "
    /\ call.text[2] = "a"
    /\ \E r \in returned :
           r.err = ErrNone /\ Len(r.val) = MaxContentBytes /\ r.val[1] = " "

\* ------------------------------------------------------------ store claims

\* C24: a thought is created pending; its only change is from pending to
\* synthesized, made by a flush; it is never changed back and never deleted, so
\* the stored thoughts only grow over buffer, flush, halt, resume, force,
\* simulate, record-latency and status
C24_Lifecycle ==
    [][/\ Len(buffered_thoughts') >= Len(buffered_thoughts)
       /\ \A i \in 1..Len(buffered_thoughts) :
              /\ buffered_thoughts'[i]
                     \in {buffered_thoughts[i],
                          [buffered_thoughts[i] EXCEPT !.status = StatusSynthesized]}
              /\ buffered_thoughts'[i] # buffered_thoughts[i]
                     => cli'.op \in {"MarkSynthesized", "flush --all"}
       /\ \A i \in (Len(buffered_thoughts) + 1)..Len(buffered_thoughts') :
              buffered_thoughts'[i].status = StatusPending]_vars

C24_Witness ==
    /\ cli.op = "resume"
    /\ IsHalted(state_table)
    /\ \E i, j \in 1..Len(buffered_thoughts) :
           /\ i < j
           /\ buffered_thoughts[i].status = StatusSynthesized
           /\ buffered_thoughts[j].status = StatusPending

\* C25: every stored thought has a priority among P0, P1 and P2; InsertThought
\* with any other token returns an error and stores nothing, and puts no
\* default in its place
C25_PriorityTiers ==
    /\ \A i \in 1..Len(buffered_thoughts) : buffered_thoughts[i].priority \in Priorities
    /\ \A agent \in Agents, priority \in DbPriorities \ Priorities :
           InsertThought(buffered_thoughts, synthesis_events, agent, ContentMain, priority)
               = {Outcome(buffered_thoughts, synthesis_events, 0, ErrInvalidPriority)}

C25_Witness ==
    /\ cli = Cli("InsertThought", 0, ErrInvalidPriority)
    /\ Len(buffered_thoughts) = 1
    /\ buffered_thoughts[1].priority = "P0"

\* the prompts flushCmd can render for the pending thoughts of the agent
RenderedFor(rows, agent) == UNION {Prompts(read) : read \in GetPendingThoughts(rows, agent)}

\* the ids of the thoughts whose status this step changes
Transitioned == {i \in 1..Len(buffered_thoughts) : buffered_thoughts'[i] # buffered_thoughts[i]}

\* the events this step adds
Added == SubSeq(synthesis_events', Len(synthesis_events) + 1, Len(synthesis_events'))

\* the events there were are still there, unchanged and in their places
EventsKept ==
    /\ Len(synthesis_events') >= Len(synthesis_events)
    /\ SubSeq(synthesis_events', 1, Len(synthesis_events)) = synthesis_events

\* C26: a successful flush of an agent with pending thoughts appends exactly one
\* event, whose thoughts_count is the number of thoughts the flush transitioned
\* and whose output is the prompt rendered; MarkSynthesized with nothing pending
\* returns 0 and changes nothing; the events there were are never changed or removed
C26_OneEventPerFlush ==
    [][/\ EventsKept
       /\ \A agent \in Agents :
              (cli'.op = "MarkSynthesized" /\ cli'.err = ErrNone /\ flushCmd({agent}))
                  => /\ Len(Added) = 1
                     /\ Added[1].agent_id = agent
                     /\ Added[1].thoughts_count = Cardinality(Transitioned)
                     /\ Added[1].thoughts_count = cli'.n
                     /\ Added[1].final_output \in RenderedFor(buffered_thoughts, agent)
                     /\ Transitioned = PendingIds(buffered_thoughts, agent)
       /\ (cli'.err = ErrNone /\ cli'.n > 0 /\ MarkSynthesizedCall)
              => /\ Len(Added) = 1
                 /\ Added[1].thoughts_count = Cardinality(Transitioned)
                 /\ Added[1].final_output = TestOutput
       /\ (cli'.op = "MarkSynthesized" /\ cli'.err = ErrNone /\ cli'.n = 0)
              => UNCHANGED <<buffered_thoughts, synthesis_events>>]_vars

C26_Witness ==
    /\ cli = Cli("MarkSynthesized", 1, ErrNone)
    /\ Len(synthesis_events) = 2
    /\ synthesis_events[1].agent_id = synthesis_events[2].agent_id
    /\ synthesis_events[2].thoughts_count = 1
    /\ Contains(synthesis_events[2].final_output, ContentTest)
    /\ \A i \in 1..Len(buffered_thoughts) : buffered_thoughts[i].status = StatusSynthesized

\* C27: a flush for one agent changes that agent's thoughts only: the thoughts
\* of the other agents keep their status and content, there are as many of them
\* as before, and no event is written for another agent
C27_OtherAgentsUntouched ==
    [][\A agent \in Agents :
           (cli'.op \in {"flush", "MarkSynthesized"} /\ flushCmd({agent}))
               => /\ Len(buffered_thoughts') = Len(buffered_thoughts)
                  /\ \A i \in 1..Len(buffered_thoughts) :
                         buffered_thoughts[i].agent_id # agent
                             => buffered_thoughts'[i] = buffered_thoughts[i]
                  /\ EventsKept
                  /\ \A k \in 1..Len(Added) : Added[k].agent_id = agent]_vars

C27_Witness ==
    /\ cli = Cli("MarkSynthesized", 1, ErrNone)
    /\ Len(synthesis_events) = 1
    /\ synthesis_events[1].agent_id = "main"
    /\ \E i, j \in 1..Len(buffered_thoughts) :
           /\ buffered_thoughts[i].agent_id = "main"
           /\ buffered_thoughts[i].status = StatusSynthesized
           /\ buffered_thoughts[j].agent_id = "architect"
           /\ buffered_thoughts[j].status = StatusPending

\* the number of events this step adds for the agent
AddedFor(agent) == Cardinality({k \in 1..Len(Added) : Added[k].agent_id = agent})

C30_NoPartialMutation ==
    [][(cli'.op \in {"MarkSynthesized", "InsertThought"} /\ cli'.err # ErrNone)
           => UNCHANGED <<buffered_thoughts, synthesis_events>>]_vars

\* C29 as stated: under any interleaving of buffer and flush commands, a flush
\* sets to synthesized exactly the thoughts it read and rendered, and no
\* thought becomes synthesized unless its content is in the prompt of the
\* flush that marked it
C29_MarksWhatItRendered ==
    [][\A f \in Flushers :
           FlushUpdate(f)
               => /\ Transitioned \subseteq flushing[f].ids
                  /\ \A i \in Transitioned :
                         Contains(flushing[f].prompt,
                                  escapeContent(buffered_thoughts[i].content))]_vars

\* C37: the samples the Tracker retains are in non-decreasing timestamp order
\* after any sequence of Record and RecordWithTime calls, so that the sample
\* dropped on overflow (the first of the slice) is the one with the oldest
\* timestamp.
C37_TimeOrdered ==
    \A i \in 1..(Len(samples) - 1) : samples[i].Timestamp <= samples[i + 1].Timestamp

\* a line of the prompt that begins with a number, a full stop and " ["
IsNumbered(line) ==
    \E n \in 1..(MaxThoughts + 1) :
        LET head == FormatInt(n) \o <<".", " ", "[">>
        IN  Len(line) >= Len(head) /\ SubSeq(line, 1, Len(head)) = head

\* the numbered lines of a prompt, in the order they have in it
NumberedLines(text) == SelectSeq(SplitLines(text), IsNumbered)

\* the prompt text has one numbered line for each item of input: line i is
\* that of the i-th item of the sorted copy s and starts with the number i, and
\* s holds the items of input, each as often as input does
OneLineEach(text, s, items) ==
    LET numbered == NumberedLines(text)
    IN  /\ Len(numbered) = Len(items)
        /\ s \in Rearranged(items)
        /\ \A i \in 1..Len(s) :
               /\ numbered[i] = Line(i, s[i])
               /\ SubSeq(numbered[i], 1, Len(FormatInt(i)) + 2) = FormatInt(i) \o <<".", " ">>

\* C38: GeneratePrompt leaves the caller's slice with the same elements in the
\* same order, and the text it returns has exactly one numbered line for each
\* input item, numbered 1..n in sorted order, none dropped or duplicated.
C38_InputKeptOneLineEach ==
    [][(prompt = NoPrompt /\ prompt' # NoPrompt)
           => /\ thoughts' = thoughts
              /\ OneLineEach(prompt', sorted', thoughts)]_vars

\* GeneratePrompt has returned for three items that sorting had to rearrange
C38_Witness ==
    /\ Rendered
    /\ Len(thoughts) = MaxThoughts
    /\ sorted # thoughts
    /\ OneLineEach(prompt, sorted, thoughts)

RECURSIVE CountedIn(_, _)
\* the sum of thoughts_count over the synthesis events of the agent
CountedIn(events, agent) ==
    IF events = <<>> THEN 0
    ELSE (IF events[1].agent_id = agent THEN events[1].thoughts_count ELSE 0)
             + CountedIn(Tail(events), agent)

\* the ids of the synthesized thoughts of the agent
SynthesizedIds(rows, agent) ==
    {i \in 1..Len(rows) : rows[i].agent_id = agent /\ rows[i].status = StatusSynthesized}

\* C36: across any interleaving of flush commands, two running at once for the
\* same agent included, the sum of thoughts_count over an agent's synthesis
\* events equals the number of that agent's synthesized thoughts; stated here
\* for the moments at which no flush is between its statements.
C36_CountedOnce ==
    (\A f \in Flushers : flushing[f].pc = "idle") =>
        \A agent \in Agents :
            CountedIn(synthesis_events, agent)
                = Cardinality(SynthesizedIds(buffered_thoughts, agent))

Verdict == Status(buffered_thoughts, network_metrics, state_table, clock)

\* C39: over any sequence of commands the halted flag is changed only by halt
\* and resume, the forced flag only by force and resume, the simulated latency
\* only by simulate and resume; buffer, flush, record-latency and status leave
\* the three as they are, status changes no table at all, and a buffer that
\* returns no error has stored its thought whatever the verdict is.
C39_FlagsByOwnCommands ==
    [][/\ state_table'.halted # state_table.halted => cli'.op \in {"halt", "resume"}
       /\ state_table'.forced_buffering # state_table.forced_buffering
              => cli'.op \in {"force", "resume"}
       /\ state_table'.simulated_ms # state_table.simulated_ms
              => cli'.op \in {"simulate", "resume"}
       /\ cli'.op \in {"buffer", "InsertThought", "flush", "MarkSynthesized", "flush --all",
                       "record-latency", "status"}
              => UNCHANGED state_table
       /\ cli'.op = "status" => UNCHANGED tableVars
       /\ (/\ cli'.op = "InsertThought"
           /\ cli'.err = ErrNone
           /\ bufferCmd({"main"}, {ContentMain}, {""}))
              => /\ Len(buffered_thoughts') = Len(buffered_thoughts) + 1
                 /\ buffered_thoughts'[Len(buffered_thoughts')].status = StatusPending
                 /\ Status(buffered_thoughts', network_metrics', state_table', clock')
                        = [Verdict EXCEPT !.pending = @ + 1]]_vars

\* a second thought was buffered while the verdict was healthy, after a halt,
\* a flush and a resume
C39_Witness ==
    /\ cli = Cli("InsertThought", 2, ErrNone)
    /\ ~Verdict.buffering
    /\ Verdict.reason = ReasonHealthy
    /\ Verdict.pending = 1
    /\ buffered_thoughts[1].status = StatusSynthesized
    /\ state_table.halted = "false"

\* the samples recorded within the last minute (instants are in half seconds)
RecordedInLastMinute == {i \in 1..Len(network_metrics) : clock - network_metrics[i].instant < 120}

====
